---------------------------- MODULE Spec2Model ----------------------------
(***************************************************************************)
(* State-machine model of the repairshopr_api synchronisation connector:   *)
(*   - the sync-cycle orchestrator (management command                     *)
(*     import_from_repairshopr, Command.handle and what it calls),         *)
(*   - the API client (repairshopr_api/client.py): rate limiting, retry,   *)
(*     response cache.                                                     *)
(*                                                                         *)
(* Encodings.  Points in time are integers; 0 stands for Python None.      *)
(* Nullable text fields use the string "None" for Python None, so that the *)
(* empty string stays a value of its own.  The status row of the table     *)
(* SyncStatus is a record; id = 0 stands for "no row yet" (the field       *)
(* default of status is "idle"), update_or_create(id=1) makes it id = 1.   *)
(***************************************************************************)
EXTENDS Integers, Sequences, FiniteSets, TLC

VARIABLES
    \* ---- orchestrator (one process per cycle) ----
    pc,                       \* position of the process inside Command.handle
    model_index,              \* position in model_mapping (1..NumModels)
    now,                      \* wall clock, django.utils.timezone.now()
    settings_last_updated_at, \* settings.django.last_updated_at (in memory)
    saved_last_updated_at,    \* last_updated_at in the config file (settings.save)
    sync_status,              \* the row SyncStatus(id=1)
    cmd,                      \* the Command object's _cycle_* and _status_* fields
    full_sync,                \* local full_sync of handle
    start_updated_at,         \* local start_updated_at of handle
    exc,                      \* message of the exception in flight, NoExc if none
    cache_cleared,            \* client.clear_cache() has run in this cycle
    \* ---- history of the current cycle (observation only) ----
    cycles,                   \* number of cycles started so far
    start_saved,              \* saved_last_updated_at when handle was entered
    raised_in,                \* the step of the cycle that raised, "none" if none
    steps_done,               \* steps of the try block completed without raising
    save_ran,                 \* settings.save() has run in this cycle
    parity_violation,         \* a parity check of this cycle exceeded its tolerance
    prev_status,              \* sync_status.status just before the cycle's first write
    prev_end                  \* how the previous cycle ended: none | exited | killed

orch_vars == <<pc, model_index, now, settings_last_updated_at, saved_last_updated_at,
               sync_status, cmd, full_sync, start_updated_at, exc, cache_cleared,
               cycles, start_saved, raised_in, steps_done, save_ran,
               parity_violation, prev_status, prev_end>>

VARIABLES
    \* ---- Client: rate limiter and retried request ----
    request_timestamps,       \* Client._request_timestamps, oldest first; an entry is
                              \* the number of seconds since it was recorded
    api_sleep_time,           \* Client.api_sleep_time, seconds slept by the limiter
    req_pc,                   \* position inside Client.request: idle | attempt | backoff
    attempt_number,           \* tenacity's attempt_number of the current attempt
    responses,                \* what each HTTP attempt of the current call got
    errors,                   \* the exception each failed attempt raised
    retry_sleeps,             \* the sleeps tenacity made during the current call
    outcome,                  \* how the current call of request ended
    attempts_made             \* HTTP attempts of all calls of request so far

req_vars == <<request_timestamps, api_sleep_time, req_pc, attempt_number, responses,
              errors, retry_sleeps, outcome, attempts_made>>

VARIABLES
    \* ---- Client: the response cache ----
    cache,                    \* Client._cache: cache key -> cached value
    has_line_item_in_cache,   \* Client._has_line_item_in_cache
    client_updated_at,        \* Client.updated_at (a week number, NoTime for None)
    \* ---- history since the last clear_cache (observation only) ----
    net_requests,             \* cache key -> network requests issued / answered well
    first_cached,             \* cache key -> the value the first successful call cached
    last_call,                \* the latest call of the Client and how it ended
    last_listing,             \* the latest get_model: its inputs, pages and records
    last_answer,              \* the payload the service sent in the latest call
    calls_made                \* calls of the Client so far

cache_vars == <<cache, has_line_item_in_cache, client_updated_at, net_requests,
                first_cached, last_call, last_listing, last_answer, calls_made>>

VARIABLES
    \* ---- two Client objects of one process ----
    instances,                \* Client object -> the attributes __init__ binds on it
    cached_through,           \* cache key -> the Client object that stored the entry
    recorded_through,         \* per request timestamp, the Client object that recorded it
    last_instance_call,       \* the latest call on a Client object
    instance_calls,           \* calls on the Client objects so far
    \* ---- heartbeat calls of the command ----
    heartbeat_call,           \* the latest call that may write the heartbeat
    heartbeat_calls,          \* such calls so far
    \* ---- the sync_status command ----
    stdout,                   \* the lines the command wrote
    status_options,           \* the options and the clock of its run
    exit_code,                \* -1 while it runs, 0 returned, else SystemExit's code
    \* ---- the supervisor of the sync process and its watchdog ----
    watchdog,                 \* the supervisor's position, its counter and deadlines,
                              \* and its latest polls and signals (observation)
    \* ---- the local store written by create_or_update_django_instance ----
    tables,                   \* the rows of the tables Ticket and TicketProperties
    upsert_call,              \* the latest call and what it returned (observation)
    upsert_calls,             \* calls so far
    \* ---- calls of BaseModel ----
    clean_key_call,           \* the latest call of clean_key and its result
    from_dict_call,           \* the latest call of from_dict and its result
    \* ---- the console scripts and the reconcile command ----
    run_django,               \* the entry point of run_django that runs, its position,
                              \* the manage commands it started and their exit codes
    reconcile,                \* the run of reconcile_invoice_line_items
    handle_model_call,        \* the latest call of handle_model and what it passed on
    validate_call,            \* the latest call of validate_sync_completeness with the
                              \* exceptions its calls met, and how it ended
    parity_call               \* the latest aggregate parity comparison and its verdict

instance_vars == <<instances, cached_through, recorded_through, last_instance_call,
                   instance_calls>>
heartbeat_vars == <<heartbeat_call, heartbeat_calls>>
status_vars == <<stdout, status_options, exit_code>>
watchdog_vars == <<watchdog>>
upsert_vars == <<tables, upsert_call, upsert_calls>>
base_model_vars == <<clean_key_call, from_dict_call>>
script_vars == <<run_django, reconcile, handle_model_call, validate_call,
                 parity_call>>
side_vars == <<instance_vars, heartbeat_vars, status_vars, watchdog_vars, upsert_vars,
               base_model_vars, script_vars>>

vars == <<orch_vars, req_vars, cache_vars, side_vars>>

-----------------------------------------------------------------------------
(* Bounds of the model *)

\* number of cycles (processes) one behaviour starts
MaxCycles == 2
\* the clock stops advancing here
MaxTime == 5
\* rows of one collection (ticket settings items, invoices in the store) in a cycle
MaxItems == 3

\* seconds of wall-clock time in one step of the clock
SecondsPerTick == 30

(* Program constants *)

\* BASELINE_UPDATED_AT = datetime(2010, 1, 1, tzinfo=utc), on the model's time axis
BASELINE_UPDATED_AT == 2
LINE_ITEM_PARITY_ABSOLUTE_TOLERANCE == 50
\* LINE_ITEM_PARITY_RELATIVE_TOLERANCE = 0.005 = 1 / 200
LINE_ITEM_PARITY_RELATIVE_DIVISOR == 200
FULL_SYNC_INVOICE_SAMPLE_SIZE == 12
INCREMENTAL_INVOICE_SAMPLE_SIZE == 4
HEARTBEAT_PAGE_INTERVAL == 10
HEARTBEAT_RECORD_INTERVAL == 100
HEARTBEAT_SECONDS_INTERVAL == 30

\* Python None on the time axis
NoTime == 0
\* the clock when the first process starts (after the baseline epoch)
FirstNow == 3

NoExc == "<no exception>"
\* str(exc) of the exceptions a step may raise: an exception without message, one with
Messages == {"", "boom"}

\* model_mapping, in its declared (dict) order; the names are api_model.__name__.lower()
ModelNames == <<"customer", "estimate", "invoice", "payment", "product", "ticket", "user">>
NumModels == Len(ModelNames)

-----------------------------------------------------------------------------
(* The status row *)

NoRow == [id |-> 0, cycle_id |-> 0, status |-> "idle", mode |-> "None",
          current_model |-> "None", current_page |-> 0, records_processed |-> 0,
          cycle_started_at |-> NoTime, cycle_finished_at |-> NoTime,
          last_heartbeat |-> NoTime, last_error |-> "None"]

\* Command._upsert_sync_status(**updates): the payload is the command's fields with
\* status "running" and last_error None, overridden by updates; update_or_create
\* writes the payload's fields and leaves the row's other fields as they are.
UpsertSyncStatus(row, c, t, updates) ==
    LET payload == updates @@
                   [cycle_id |-> c.cycle_id, mode |-> c.cycle_mode, status |-> "running",
                    current_model |-> c.current_model,
                    current_page |-> c.current_page,
                    records_processed |-> c.records_processed,
                    cycle_started_at |-> c.cycle_started_at,
                    last_heartbeat |-> t, last_error |-> "None"]
    IN  payload @@ [id |-> 1] @@ row

\* Command.__init__: the _cycle_* and _status_* fields
NewCommand == [cycle_id |-> 0, cycle_mode |-> "None", cycle_started_at |-> NoTime,
               current_model |-> "None", current_page |-> 0, records_processed |-> 0,
               last_written_at |-> NoTime, last_written_page |-> 0,
               last_written_records |-> 0]

\* the record interval has to be exceeded
HeartbeatDueOverInterval(c, t) ==
    LET enough_records == c.records_processed - c.last_written_records
                            > HEARTBEAT_RECORD_INTERVAL
        enough_pages == /\ c.current_page > c.last_written_page
                        /\ c.current_page % HEARTBEAT_PAGE_INTERVAL = 0
        enough_time == \/ c.last_written_at = NoTime
                       \/ (t - c.last_written_at) * SecondsPerTick
                            >= HEARTBEAT_SECONDS_INTERVAL
    IN  enough_records \/ enough_pages \/ enough_time

\* Command._maybe_write_sync_heartbeat(force): st = [cmd, row], t = now()
HeartbeatDue(c, t) ==
    LET enough_records == c.records_processed - c.last_written_records
                            >= HEARTBEAT_RECORD_INTERVAL
        enough_pages == /\ c.current_page > c.last_written_page
                        /\ c.current_page % HEARTBEAT_PAGE_INTERVAL = 0
        enough_time == \/ c.last_written_at = NoTime
                       \/ (t - c.last_written_at) * SecondsPerTick
                            >= HEARTBEAT_SECONDS_INTERVAL
    IN  enough_records \/ enough_pages \/ enough_time

MaybeWriteSyncHeartbeat(st, t, force) ==
    IF ~force /\ ~HeartbeatDue(st.cmd, t) THEN st
    ELSE [cmd |-> [st.cmd EXCEPT !.last_written_at = t,
                                 !.last_written_page = st.cmd.current_page,
                                 !.last_written_records = st.cmd.records_processed],
          row |-> UpsertSyncStatus(st.row, st.cmd, t, [last_heartbeat |-> t])]

\* Command._set_model_sync_progress(model_name)
SetModelSyncProgress(st, t, model_name) ==
    MaybeWriteSyncHeartbeat(
        [st EXCEPT !.cmd.current_model = model_name, !.cmd.current_page = 0,
                   !.cmd.records_processed = 0, !.cmd.last_written_page = 0,
                   !.cmd.last_written_records = 0, !.cmd.last_written_at = NoTime],
        t, TRUE)

\* Command._mark_sync_cycle_started(full_sync): cycle ids come from uuid4(), here the
\* number of the cycle
MarkSyncCycleStarted(row, full, new_id, t) ==
    LET c == [NewCommand EXCEPT !.cycle_id = new_id,
                                !.cycle_mode = IF full THEN "full" ELSE "incremental",
                                !.cycle_started_at = t]
    IN  [cmd |-> c,
         row |-> UpsertSyncStatus(row, c, t,
                    [status |-> "running", current_model |-> "None",
                     current_page |-> 0, records_processed |-> 0,
                     cycle_finished_at |-> NoTime, last_error |-> "None",
                     last_heartbeat |-> t])]

\* Command._is_full_sync_run(last_updated_at)
IsFullSyncRun(last_updated_at) ==
    IF last_updated_at = NoTime THEN TRUE ELSE last_updated_at < BASELINE_UPDATED_AT

\* _mark_sync_cycle_finished: final_status = "failed" if error_message else "success"
\* (Python truth of a str: the empty string and None are false)
FinalStatus(error_message) ==
    IF error_message \notin {"None", ""} THEN "failed" ELSE "success"

\* Command._mark_sync_cycle_finished(error_message)
MarkSyncCycleFinished(row, c, t, error_message) ==
    UpsertSyncStatus(row, c, t,
        [status |-> FinalStatus(error_message), cycle_finished_at |-> t,
         last_error |-> error_message, last_heartbeat |-> t])

-----------------------------------------------------------------------------
(* validate_sync_completeness *)

Abs(x) == IF x < 0 THEN 0 - x ELSE x
Max(a, b) == IF a >= b THEN a ELSE b

\* (changed) only the absolute tolerance counts
LineItemAllowedDeltaAbsolute(expected_count) == LINE_ITEM_PARITY_ABSOLUTE_TOLERANCE

\* Command._line_item_allowed_delta:
\*   max(LINE_ITEM_PARITY_ABSOLUTE_TOLERANCE, int(expected_count * 0.005))
LineItemAllowedDelta(expected_count) ==
    Max(LINE_ITEM_PARITY_ABSOLUTE_TOLERANCE,
        expected_count \div LINE_ITEM_PARITY_RELATIVE_DIVISOR)

\* What one parity expectation (invoice_line_items, estimate_line_items) meets:
\*   fetch_error  _fetch_line_item_total_entries raised one of the caught exceptions
\*   no_total     the metadata carried no total_entries
\*   db_error     db_counter() raised (not caught inside validate_sync_completeness)
\*   counts       expected_total from the API and actual_total from the store
ExpectedTotals == {100}
Deltas == {-51, -50, 0, 51}
FamilyOutcomes ==
    {[kind |-> "fetch_error"], [kind |-> "no_total"]}
    \cup {[kind |-> "db_error", msg |-> m] : m \in Messages}
    \cup {f \in {[kind |-> "counts", expected |-> e, actual |-> e + d] :
                    e \in ExpectedTotals, d \in Deltas} : f.actual >= 0}

\* What _evaluate_invoice_line_item_sample_parity does:
\*   caught_error      raised RequestException, PermissionError, ValueError,
\*                     TypeError or DatabaseError
\*   unexpected_error  raised anything else
\*   report            returned a report with mismatch_count
SampleOutcomes ==
    {[kind |-> "caught_error"]}
    \cup {[kind |-> "unexpected_error", msg |-> m] : m \in Messages}
    \cup {[kind |-> "report", mismatch_count |-> n] : n \in 0..MaxItems}

\* abs(delta) > allowed_delta
AggregateExceeds(f) ==
    /\ f.kind = "counts"
    /\ Abs(f.actual - f.expected) > LineItemAllowedDelta(f.expected)

\* allowed_sample_mismatches = 1 if full_sync else 2
AllowedSampleMismatches(full) == IF full THEN 1 ELSE 2

\* mismatch_count > allowed_sample_mismatches
SampleExceeds(full, s) ==
    /\ s.kind = "report"
    /\ s.mismatch_count > AllowedSampleMismatches(full)

\* needs_invoice_line_item_repair at the end of validate_sync_completeness
NeedsInvoiceLineItemRepair(full, inv, sample) ==
    \/ AggregateExceeds(inv) /\ inv.actual - inv.expected < 0
    \/ SampleExceeds(full, sample)

\* (changed) the block raises whenever a repair is needed, in both modes
RepairBlockRaisesInAnyMode(full, needs_repair) ==
    IF needs_repair THEN "Sync completeness validation failed" ELSE NoExc

\* The block "if full_sync and needs_invoice_line_item_repair": it writes a
\* heartbeat and logs invoice_line_item_repair_deferred; it raises nothing.
\* The result is the message of the exception the block raises, NoExc for none.
RepairBlockRaises(full, needs_repair) == NoExc

\* The exception that a call made by validate_sync_completeness raises and that
\* the method does not catch (db_counter(), the sample check), NoExc if none
ValidateCallsRaise(inv, est, sample) ==
    IF inv.kind = "db_error" THEN inv.msg
    ELSE IF est.kind = "db_error" THEN est.msg
    ELSE IF sample.kind = "unexpected_error" THEN sample.msg
    ELSE NoExc

\* validate_sync_completeness(full_sync=full): the message of the exception it
\* raises, NoExc when it returns.  inv and est are what the two parity
\* expectations meet, in this order, sample what the sample check does.
ValidateSyncCompleteness(full, inv, est, sample) ==
    IF ValidateCallsRaise(inv, est, sample) # NoExc
      THEN ValidateCallsRaise(inv, est, sample)
      ELSE RepairBlockRaises(full, NeedsInvoiceLineItemRepair(full, inv, sample))

\* Some parity check that validate_sync_completeness ran exceeded its tolerance
\* (an aggregate outside the allowed delta, in either direction, or the sample
\* over its limit).
ParityExceeded(full, inv, est, sample) ==
    \/ AggregateExceeds(inv)
    \/ inv.kind # "db_error" /\ AggregateExceeds(est)
    \/ inv.kind # "db_error" /\ est.kind # "db_error" /\ SampleExceeds(full, sample)

-----------------------------------------------------------------------------
(* The orchestrator: Command.handle, one process per cycle *)

St == [cmd |-> cmd, row |-> sync_status]

\* RECURSIVE helper of sync_ticket_settings: n items upserted one by one, each
\* followed by _status_records_processed += 1 and a heartbeat check
RECURSIVE ProcessItems(_, _, _)
ProcessItems(st, t, n) ==
    IF n = 0 THEN st
    ELSE ProcessItems(
             MaybeWriteSyncHeartbeat(
                 [st EXCEPT !.cmd.records_processed = @ + 1], t, FALSE),
             t, n - 1)

history_unchanged == UNCHANGED <<cycles, start_saved, prev_status, prev_end>>
settings_unchanged == UNCHANGED <<settings_last_updated_at, saved_last_updated_at>>

OrchInit ==
    /\ pc = "idle"
    /\ model_index = 0
    /\ now = FirstNow
    /\ saved_last_updated_at \in {NoTime, BASELINE_UPDATED_AT - 1, BASELINE_UPDATED_AT}
    /\ settings_last_updated_at = saved_last_updated_at
    /\ sync_status = NoRow
    /\ cmd = NewCommand
    /\ full_sync = FALSE
    /\ start_updated_at = NoTime
    /\ exc = NoExc
    /\ cache_cleared = FALSE
    /\ cycles = 0
    /\ start_saved = saved_last_updated_at
    /\ raised_in = "none"
    /\ steps_done = 0
    /\ save_ran = FALSE
    /\ parity_violation = FALSE
    /\ prev_status = "idle"
    /\ prev_end = "none"

\* Time passes.
Tick ==
    /\ now < MaxTime
    /\ now' = now + 1
    /\ UNCHANGED <<pc, model_index, settings_last_updated_at, saved_last_updated_at,
                   sync_status, cmd, full_sync, start_updated_at, exc, cache_cleared,
                   cycles, start_saved, raised_in, steps_done, save_ran,
                   parity_violation, prev_status, prev_end>>

\* A process starts (AppSettings loads the config file, Command.__init__) and enters
\* handle: last_updated_at is read, full_sync decided, the cycle marked as started.
StartCycle ==
    /\ pc \in {"idle", "exited", "killed"}
    /\ cycles < MaxCycles
    /\ LET last_updated_at == saved_last_updated_at
           full == IsFullSyncRun(last_updated_at)
           st == MarkSyncCycleStarted(sync_status, full, cycles + 1, now)
       IN  /\ settings_last_updated_at' = last_updated_at
           /\ full_sync' = full
           /\ cmd' = st.cmd
           /\ sync_status' = st.row
           /\ start_updated_at' = st.cmd.cycle_started_at
    /\ pc' = "models"
    /\ model_index' = 1
    /\ exc' = NoExc
    /\ cache_cleared' = FALSE
    /\ cycles' = cycles + 1
    /\ start_saved' = saved_last_updated_at
    /\ raised_in' = "none"
    /\ steps_done' = 0
    /\ save_ran' = FALSE
    /\ parity_violation' = FALSE
    /\ prev_status' = sync_status.status
    /\ prev_end' = IF pc = "idle" THEN "none" ELSE pc
    /\ UNCHANGED <<now, saved_last_updated_at>>

\* handle_model up to and including _set_model_sync_progress(model name)
BeginModel ==
    /\ pc = "models"
    /\ LET st == SetModelSyncProgress(St, now, ModelNames[model_index])
       IN  cmd' = st.cmd /\ sync_status' = st.row
    /\ pc' = "in_model"
    /\ UNCHANGED <<model_index, now, full_sync, start_updated_at, exc, cache_cleared,
                   raised_in, parity_violation>>
    /\ settings_unchanged /\ history_unchanged
    /\ UNCHANGED <<steps_done, save_ran>>

\* handle_model: the records of the model are fetched and upserted; the step ends
\* with a forced heartbeat, or any of its calls raises
EndModel ==
    /\ pc = "in_model"
    /\ \/ /\ LET st == MaybeWriteSyncHeartbeat(St, now, TRUE)
              IN  cmd' = st.cmd /\ sync_status' = st.row
          /\ IF model_index < NumModels
                THEN pc' = "models" /\ model_index' = model_index + 1
                ELSE pc' = "ticket_settings" /\ model_index' = model_index
          /\ steps_done' = steps_done + 1
          /\ UNCHANGED <<exc, raised_in>>
       \/ /\ \E m \in Messages : exc' = m
          /\ raised_in' = "handle_model"
          /\ pc' = "except"
          /\ UNCHANGED <<cmd, sync_status, model_index, steps_done>>
    /\ UNCHANGED <<now, full_sync, start_updated_at, cache_cleared, parity_violation>>
    /\ settings_unchanged /\ history_unchanged
    /\ UNCHANGED save_ran

\* sync_ticket_settings: _set_model_sync_progress("ticket_settings")
BeginTicketSettings ==
    /\ pc = "ticket_settings"
    /\ LET st == SetModelSyncProgress(St, now, "ticket_settings")
       IN  cmd' = st.cmd /\ sync_status' = st.row
    /\ pc' = "in_ticket_settings"
    /\ UNCHANGED <<model_index, now, full_sync, start_updated_at, exc, cache_cleared,
                   raised_in, parity_violation>>
    /\ settings_unchanged /\ history_unchanged
    /\ UNCHANGED <<steps_done, save_ran>>

\* sync_ticket_settings: the fetch fails with a caught exception (return), or n items
\* are upserted, or an upsert raises
EndTicketSettings ==
    /\ pc = "in_ticket_settings"
    /\ \/ /\ pc' = "validate"
          /\ steps_done' = steps_done + 1
          /\ UNCHANGED <<cmd, sync_status, exc, raised_in>>
       \/ /\ \E n \in 0..MaxItems :
                LET st == ProcessItems(St, now, n)
                IN  cmd' = st.cmd /\ sync_status' = st.row
          /\ pc' = "validate"
          /\ steps_done' = steps_done + 1
          /\ UNCHANGED <<exc, raised_in>>
       \/ /\ \E m \in Messages : exc' = m
          /\ raised_in' = "sync_ticket_settings"
          /\ pc' = "except"
          /\ UNCHANGED <<cmd, sync_status, steps_done>>
    /\ UNCHANGED <<model_index, now, full_sync, start_updated_at, cache_cleared,
                   parity_violation>>
    /\ settings_unchanged /\ history_unchanged
    /\ UNCHANGED save_ran

\* One turn of the parity loop of validate_sync_completeness, for expectation number
\* parity_index meeting f: the page is set and a heartbeat checked; a fetch error or
\* a missing total skips the rest of the turn (continue)
ParityTurn(st, t, parity_index, f) ==
    LET st1 == MaybeWriteSyncHeartbeat(
                   [st EXCEPT !.cmd.current_page = parity_index], t, FALSE)
    IN  IF f.kind = "counts"
          THEN MaybeWriteSyncHeartbeat(
                   [st1 EXCEPT !.cmd.records_processed = parity_index], t, FALSE)
          ELSE st1

\* _fetch_invoice_line_item_count for an invoice whose line items fit one page
FetchInvoiceLineItemCount(st, t) ==
    MaybeWriteSyncHeartbeat(
        MaybeWriteSyncHeartbeat([st EXCEPT !.cmd.current_page = 1], t, FALSE),
        t, FALSE)

\* The loop of _evaluate_invoice_line_item_sample_parity over the sampled invoices
\* sample_index .. last
RECURSIVE SampleLoop(_, _, _, _)
SampleLoop(st, t, sample_index, last) ==
    IF sample_index > last THEN st
    ELSE LET st1 == MaybeWriteSyncHeartbeat(
                        [st EXCEPT !.cmd.current_page = sample_index], t, FALSE)
             st2 == FetchInvoiceLineItemCount(st1, t)
             st3 == MaybeWriteSyncHeartbeat(
                        [st2 EXCEPT !.cmd.records_processed = sample_index], t, FALSE)
         IN  SampleLoop(st3, t, sample_index + 1, last)

Min(a, b) == IF a <= b THEN a ELSE b

\* _evaluate_invoice_line_item_sample_parity(sample_size): the progress fields are
\* reset and a heartbeat forced; then the sample is built (_build_invoice_sample_ids
\* on a store of MaxItems invoices: min(sample_size, MaxItems) distinct ids) and
\* walked, unless that raises
EvaluateSample(st, t, sample_size, sample) ==
    LET st1 == MaybeWriteSyncHeartbeat(
                   [st EXCEPT !.cmd.current_model = "line_item_sample",
                              !.cmd.current_page = 0,
                              !.cmd.records_processed = 0], t, TRUE)
    IN  IF sample.kind = "report"
          THEN SampleLoop(st1, t, 1, Min(sample_size, MaxItems))
          ELSE st1

\* The progress fields and the status row when validate_sync_completeness returns
\* or raises
ValidateProgress(st, t, full, inv, est, sample) ==
    LET st1 == ParityTurn(st, t, 1, inv)
        st2 == ParityTurn(st1, t, 2, est)
        st3 == MaybeWriteSyncHeartbeat(
                   [st2 EXCEPT !.cmd.current_page = @ + 1], t, FALSE)
        st4 == EvaluateSample(st3, t,
                   IF full THEN FULL_SYNC_INVOICE_SAMPLE_SIZE
                           ELSE INCREMENTAL_INVOICE_SAMPLE_SIZE, sample)
    IN  IF inv.kind = "db_error" THEN st1
        ELSE IF est.kind = "db_error" THEN st2
        ELSE IF full /\ NeedsInvoiceLineItemRepair(full, inv, sample)
                     /\ sample.kind # "unexpected_error"
          THEN MaybeWriteSyncHeartbeat(
                   [st4 EXCEPT !.cmd.current_page = @ + 1], t, TRUE)
          ELSE st4

\* validate_sync_completeness: the progress fields are reset and a heartbeat forced
BeginValidate ==
    /\ pc = "validate"
    /\ LET st == MaybeWriteSyncHeartbeat(
                     [St EXCEPT !.cmd.current_model = "sync_validation",
                                !.cmd.current_page = 0,
                                !.cmd.records_processed = 0], now, TRUE)
       IN  cmd' = st.cmd /\ sync_status' = st.row
    /\ pc' = "in_validate"
    /\ UNCHANGED <<model_index, now, full_sync, start_updated_at, exc, cache_cleared,
                   raised_in, parity_violation>>
    /\ settings_unchanged /\ history_unchanged
    /\ UNCHANGED <<steps_done, save_ran>>

\* validate_sync_completeness: the two aggregate checks and the sample check
EndValidate ==
    /\ pc = "in_validate"
    /\ \E inv \in FamilyOutcomes, est \in FamilyOutcomes, sample \in SampleOutcomes :
          LET st == ValidateProgress(St, now, full_sync, inv, est, sample)
              raised == ValidateSyncCompleteness(full_sync, inv, est, sample)
          IN  /\ cmd' = st.cmd
              /\ sync_status' = st.row
              /\ parity_violation' = ParityExceeded(full_sync, inv, est, sample)
              /\ IF raised = NoExc
                    THEN /\ pc' = "commit"
                         /\ steps_done' = steps_done + 1
                         /\ UNCHANGED <<exc, raised_in>>
                    ELSE /\ pc' = "except"
                         /\ exc' = raised
                         /\ raised_in' = IF raised = ValidateCallsRaise(inv, est, sample)
                                            THEN "validate_sync_completeness"
                                            ELSE "parity_check"
                         /\ UNCHANGED steps_done
    /\ UNCHANGED <<model_index, now, full_sync, start_updated_at, cache_cleared>>
    /\ settings_unchanged /\ history_unchanged
    /\ UNCHANGED save_ran

\* (changed) the time at which the commit runs becomes the high-water mark
CommitNow ==
    /\ pc = "commit"
    /\ settings_last_updated_at' = now
    /\ pc' = "save"
    /\ UNCHANGED <<model_index, now, saved_last_updated_at, sync_status, cmd, full_sync,
                   start_updated_at, exc, cache_cleared, raised_in, parity_violation>>
    /\ history_unchanged
    /\ UNCHANGED <<steps_done, save_ran>>

\* settings.django.last_updated_at = start_updated_at
Commit ==
    /\ pc = "commit"
    /\ settings_last_updated_at' = start_updated_at
    /\ pc' = "save"
    /\ UNCHANGED <<model_index, now, saved_last_updated_at, sync_status, cmd, full_sync,
                   start_updated_at, exc, cache_cleared, raised_in, parity_violation>>
    /\ history_unchanged
    /\ UNCHANGED <<steps_done, save_ran>>

\* settings.save()
Save ==
    /\ pc = "save"
    /\ saved_last_updated_at' = settings_last_updated_at
    /\ pc' = "finish"
    /\ UNCHANGED <<model_index, now, settings_last_updated_at, sync_status, cmd,
                   full_sync, start_updated_at, exc, cache_cleared, raised_in,
                   parity_violation>>
    /\ history_unchanged
    /\ save_ran' = TRUE
    /\ UNCHANGED steps_done

\* The end of the try block: the SYNC_RUN done log and _mark_sync_cycle_finished(),
\* whose write of the status row may raise like any other call of the try block
Finish ==
    /\ pc = "finish"
    /\ \/ /\ sync_status' = MarkSyncCycleFinished(sync_status, cmd, now, "None")
          /\ pc' = "finally"
          /\ UNCHANGED <<exc, raised_in>>
       \/ /\ \E m \in Messages : exc' = m
          /\ raised_in' = "_mark_sync_cycle_finished"
          /\ pc' = "except"
          /\ UNCHANGED sync_status
    /\ UNCHANGED <<model_index, now, cmd, full_sync, start_updated_at, cache_cleared,
                   parity_violation>>
    /\ settings_unchanged /\ history_unchanged
    /\ UNCHANGED <<steps_done, save_ran>>

\* (changed) the handler also commits the high-water mark
ExceptCommitting ==
    /\ pc = "except"
    /\ sync_status' = MarkSyncCycleFinished(sync_status, cmd, now, exc)
    /\ settings_last_updated_at' = start_updated_at
    /\ saved_last_updated_at' = start_updated_at
    /\ pc' = "finally"
    /\ UNCHANGED <<model_index, now, cmd, full_sync, start_updated_at, exc,
                   cache_cleared, raised_in, parity_violation, steps_done, save_ran>>
    /\ history_unchanged

\* except Exception as exc: self._mark_sync_cycle_finished(error_message=str(exc))
Except ==
    /\ pc = "except"
    /\ sync_status' = MarkSyncCycleFinished(sync_status, cmd, now, exc)
    /\ pc' = "finally"
    /\ UNCHANGED <<model_index, now, cmd, full_sync, start_updated_at, exc,
                   cache_cleared, raised_in, parity_violation>>
    /\ settings_unchanged /\ history_unchanged
    /\ UNCHANGED <<steps_done, save_ran>>

\* (changed) a heartbeat is written after the final status
FinallyWithHeartbeat ==
    /\ pc = "finally"
    /\ cache_cleared' = TRUE
    /\ pc' = "exited"
    /\ LET st == MaybeWriteSyncHeartbeat(St, now, TRUE)
       IN  cmd' = st.cmd /\ sync_status' = st.row
    /\ UNCHANGED <<model_index, now, full_sync, start_updated_at,
                   exc, raised_in, parity_violation, steps_done, save_ran>>
    /\ settings_unchanged /\ history_unchanged

\* finally: client.clear_cache(); handle returns, or re-raises exc, and the process
\* exits
Finally ==
    /\ pc = "finally"
    /\ cache_cleared' = TRUE
    /\ pc' = "exited"
    /\ UNCHANGED <<model_index, now, sync_status, cmd, full_sync, start_updated_at,
                   exc, raised_in, parity_violation>>
    /\ settings_unchanged /\ history_unchanged
    /\ UNCHANGED <<steps_done, save_ran>>

\* The process is terminated from outside (SIGTERM / SIGKILL by the supervisor): it
\* stops where it is; what it has persisted (the status row, the config file) stays,
\* its memory is gone
Kill ==
    /\ pc \notin {"idle", "exited", "killed"}
    /\ pc' = "killed"
    /\ model_index' = 0
    /\ cmd' = NewCommand
    /\ full_sync' = FALSE
    /\ start_updated_at' = NoTime
    /\ exc' = NoExc
    /\ settings_last_updated_at' = saved_last_updated_at
    /\ UNCHANGED <<now, saved_last_updated_at, sync_status, cache_cleared, raised_in,
                   parity_violation>>
    /\ history_unchanged
    /\ UNCHANGED <<steps_done, save_ran>>

-----------------------------------------------------------------------------
(* Client: the rate limiter and the retried request (client.py)            *)
(*                                                                         *)
(* Time is counted in whole seconds.  An entry of _request_timestamps is   *)
(* kept as its age, the seconds elapsed since it was recorded: the code    *)
(* only ever compares an entry with datetime.now(), and an entry older     *)
(* than the window is purged before anything reads it, so ages stop        *)
(* growing one second past the window.                                     *)

client_vars == <<req_vars, cache_vars>>

\* HTTP attempts in one behaviour: a call of request starts while a whole call
\* (MAX_RETRIES attempts) still fits
MaxAttempts == 8
\* Client.REQUEST_LIMIT is 150 (client.py:58), a class attribute; it is scaled
\* down here so that the window fills within one behaviour
REQUEST_LIMIT == 3
\* seconds the caller lets pass between two calls of request
IdleSeconds == 30
\* seconds one HTTP exchange takes
HttpSeconds == 1
\* seconds a sleep may last longer than asked
Overshoots == {0, 1}

MAX_RETRIES == 6
\* timedelta(seconds=60) in _clear_old_request_timestamps and the 60 of
\* _wait_for_rate_limit
WindowSeconds == 60
\* wait_exponential(min=2, max=30)
WaitMin == 2
WaitMax == 30

HTTP_OK == 200
HTTP_UNAUTHORIZED == 401
HTTP_NOT_FOUND == 404
HTTP_TOO_MANY_REQUESTS == 429
HTTP_INTERNAL_SERVER_ERROR == 500

\* what super().request() can do: answer with a status, or raise a transport
\* error of requests (ConnectionError, Timeout: subclasses of RequestException)
HttpOutcomes ==
    {[kind |-> "response", status |-> s] :
        s \in {HTTP_OK, HTTP_UNAUTHORIZED, HTTP_NOT_FOUND, HTTP_TOO_MANY_REQUESTS,
               HTTP_INTERNAL_SERVER_ERROR}}
    \cup {[kind |-> "transport_error", status |-> 0]}

NoOutcome == [kind |-> "none", attempt |-> 0, type |-> "", message |-> ""]

\* datetime.now() moved on by d seconds
Elapse(timestamps, d) ==
    [i \in 1..Len(timestamps) |->
        IF timestamps[i] + d > WindowSeconds THEN WindowSeconds + 1
        ELSE timestamps[i] + d]

RECURSIVE ClearOldRequestTimestamps(_)
\* popleft while the oldest entry is before now - 60s
ClearOldRequestTimestamps(timestamps) ==
    IF timestamps # <<>> /\ timestamps[1] > WindowSeconds
    THEN ClearOldRequestTimestamps(Tail(timestamps))
    ELSE timestamps

\* _wait_for_rate_limit that sleeps without adding to api_sleep_time
WaitForRateLimitUncounted(timestamps, slept_so_far, overshoot) ==
    LET purged == ClearOldRequestTimestamps(timestamps)
    IN  IF Len(purged) > REQUEST_LIMIT /\ WindowSeconds - purged[1] > 0
        THEN [timestamps |->
                 Append(ClearOldRequestTimestamps(
                            Elapse(purged, WindowSeconds - purged[1] + overshoot)), 0),
              api_sleep_time |-> slept_so_far,
              sleep_time |-> WindowSeconds - purged[1]]
        ELSE [timestamps |-> Append(purged, 0),
              api_sleep_time |-> slept_so_far,
              sleep_time |-> 0]

\* _wait_for_rate_limit; overshoot is what sleep() lasted beyond sleep_time
WaitForRateLimit(timestamps, slept_so_far, overshoot) ==
    LET purged == ClearOldRequestTimestamps(timestamps)
    IN  IF Len(purged) > REQUEST_LIMIT
        THEN LET sleep_time == WindowSeconds - purged[1]
             IN  IF sleep_time > 0
                 THEN [timestamps |->
                          Append(ClearOldRequestTimestamps(
                                     Elapse(purged, sleep_time + overshoot)), 0),
                       api_sleep_time |-> slept_so_far + sleep_time,
                       sleep_time |-> sleep_time]
                 ELSE [timestamps |-> Append(ClearOldRequestTimestamps(purged), 0),
                       api_sleep_time |-> slept_so_far,
                       sleep_time |-> 0]
        ELSE [timestamps |-> Append(purged, 0),
              api_sleep_time |-> slept_so_far,
              sleep_time |-> 0]

\* the match on response.status_code: the exception the attempt raises, or
\* NoOutcome for 200
StatusError(http, n) ==
    IF http.kind = "transport_error"
    THEN [kind |-> "raise", attempt |-> n, type |-> "ConnectionError",
          message |-> "transport"]
    ELSE CASE http.status = HTTP_OK -> NoOutcome
           [] http.status = HTTP_TOO_MANY_REQUESTS ->
                [kind |-> "raise", attempt |-> n, type |-> "RequestException",
                 message |-> "Rate limit reached"]
           [] http.status = HTTP_UNAUTHORIZED ->
                [kind |-> "raise", attempt |-> n, type |-> "PermissionError",
                 message |-> "Authorization failed with the provided token."]
           [] http.status = HTTP_NOT_FOUND ->
                [kind |-> "raise", attempt |-> n, type |-> "ValueError",
                 message |-> "Received 404 error."]
           [] OTHER ->
                [kind |-> "raise", attempt |-> n, type |-> "RequestException",
                 message |-> "Received unexpected status code"]

\* retry every exception type
RetryIfAnyException(error) == TRUE

\* retry only transport errors
RetryIfTransportError(error) == error.type = "ConnectionError"

\* retry=retry_if_exception_type(requests.RequestException)
RetryIfRequestException(error) ==
    error.type \in {"RequestException", "ConnectionError"}

\* stop one attempt later
StopAfterOneMoreAttempt(n) == n > MAX_RETRIES

\* stop=stop_after_attempt(MAX_RETRIES)
StopAfterAttempt(n) == n >= MAX_RETRIES

RECURSIVE Pow2(_)
Pow2(k) == IF k <= 0 THEN 1 ELSE 2 * Pow2(k - 1)

\* wait=wait_exponential(min=2, max=30) after attempt n (multiplier 1, base 2)
WaitExponential(n) ==
    LET exp == Pow2(n - 1)
        capped == IF exp < WaitMax THEN exp ELSE WaitMax
    IN  IF capped > WaitMin THEN capped ELSE WaitMin

RequestInit ==
    /\ request_timestamps = <<>>
    /\ api_sleep_time = 0
    /\ req_pc = "idle"
    /\ attempt_number = 0
    /\ responses = <<>>
    /\ errors = <<>>
    /\ retry_sleeps = <<>>
    /\ outcome = NoOutcome
    /\ attempts_made = 0

\* time passes between two calls of request
Idle ==
    /\ req_pc = "idle"
    /\ attempts_made + MAX_RETRIES <= MaxAttempts
    /\ \E d \in {IdleSeconds, WindowSeconds + 1} :
          /\ request_timestamps # Elapse(request_timestamps, d)
          /\ request_timestamps' = Elapse(request_timestamps, d)
    /\ UNCHANGED <<api_sleep_time, req_pc, attempt_number, responses, errors,
                   retry_sleeps, outcome, attempts_made>>

\* a caller enters request (tenacity starts with attempt 1)
CallRequest ==
    /\ req_pc = "idle"
    /\ attempts_made + MAX_RETRIES <= MaxAttempts
    /\ req_pc' = "attempt"
    /\ attempt_number' = 1
    /\ responses' = <<>>
    /\ errors' = <<>>
    /\ retry_sleeps' = <<>>
    /\ outcome' = NoOutcome
    /\ UNCHANGED <<request_timestamps, api_sleep_time, attempts_made>>

\* one run of the body of request under tenacity: the limiter, the HTTP exchange,
\* the match on the status, and tenacity's decision on what the body raised
Attempt ==
    /\ req_pc = "attempt"
    /\ \E http \in HttpOutcomes, overshoot \in Overshoots :
          LET waited == WaitForRateLimit(request_timestamps, api_sleep_time,
                                         overshoot)
              error == StatusError(http, attempt_number)
          IN  /\ request_timestamps' = Elapse(waited.timestamps, HttpSeconds)
              /\ api_sleep_time' = waited.api_sleep_time
              /\ responses' = Append(responses, http)
              /\ IF error = NoOutcome
                 THEN /\ outcome' = [kind |-> "return", attempt |-> attempt_number,
                                     type |-> "Response", message |-> ""]
                      /\ req_pc' = "idle"
                      /\ errors' = errors
                 ELSE /\ errors' = Append(errors, error)
                      /\ IF RetryIfRequestException(error)
                            /\ ~StopAfterAttempt(attempt_number)
                         THEN /\ req_pc' = "backoff"
                              /\ outcome' = outcome
                         ELSE \* reraise=True: the attempt's own exception
                              /\ req_pc' = "idle"
                              /\ outcome' = error
    /\ attempts_made' = attempts_made + 1
    /\ UNCHANGED <<attempt_number, retry_sleeps>>

\* tenacity logs (before_sleep), sleeps, and starts the next attempt
RetrySleep ==
    /\ req_pc = "backoff"
    /\ LET wait == WaitExponential(attempt_number)
       IN  /\ retry_sleeps' = Append(retry_sleeps, wait)
           /\ request_timestamps' = Elapse(request_timestamps, wait)
    /\ attempt_number' = attempt_number + 1
    /\ req_pc' = "attempt"
    /\ UNCHANGED <<api_sleep_time, responses, errors, outcome, attempts_made>>

-----------------------------------------------------------------------------
(* Client: the response cache, the list and by-id fetches, the line item   *)
(* prefetch and pagination (client.py)                                     *)
(*                                                                         *)
(* A cache key is kept as the parts the key string is built from: the      *)
(* model name, "list" or "id", and the sorted parameters (hash() is taken  *)
(* to be injective on them).  A parameter dict is the sequence of its      *)
(* items in insertion order; parameter values are numbers ("true" is 1).   *)
(* The service is a store of rows it pages; every call picks what the      *)
(* service holds and whether one of its answers fails.                     *)

\* calls of the Client in one behaviour
MaxCalls == 3
\* rows the service puts on one page
ServerPerPage == 2
\* the current week on the Client's clock
NowWeek == 60

\* per_page of the pages prefetch_line_items builds (100 in the source, scaled)
PREFETCH_PER_PAGE == 3
\* timedelta(weeks=52) in prefetch_line_items
PREFETCH_CUTOFF_WEEKS == 52

\* sorted() orders the items of a parameter dict by name
ParamRank ==
    [invoice_id |-> 1, invoice_id_not_null |-> 2, page |-> 3, since_updated_at |-> 4]

HasParam(params, name) == \E i \in DOMAIN params : params[i][1] = name

\* params.get(name, default)
ParamValue(params, name, default) ==
    IF HasParam(params, name)
    THEN params[CHOOSE i \in DOMAIN params : params[i][1] = name][2]
    ELSE default

\* params[name] = value
SetParam(params, name, value) ==
    IF HasParam(params, name)
    THEN [i \in DOMAIN params |->
             IF params[i][1] = name THEN <<name, value>> ELSE params[i]]
    ELSE Append(params, <<name, value>>)

RECURSIVE SortedParams(_)
\* tuple(sorted(params.items()))
SortedParams(params) ==
    IF params = <<>> THEN <<>>
    ELSE LET least == CHOOSE i \in DOMAIN params :
                         \A j \in DOMAIN params :
                             ParamRank[params[i][1]] <= ParamRank[params[j][1]]
             rest == [k \in 1..(Len(params) - 1) |->
                         IF k < least THEN params[k] ELSE params[k + 1]]
         IN  <<params[least]>> \o SortedParams(rest)

\* f"{model_name}_list" + f"_{hash(sorted_params)}"
ListCacheKey(model_name, params) ==
    [model |-> model_name, kind |-> "list", params |-> SortedParams(params)]

\* f"{model.__name__.lower()}_{instance_id}"
IdCacheKey(model, instance_id) ==
    [model |-> model.lower, kind |-> "id", params |-> <<<<"id", instance_id>>>>]

\* the model classes: __name__, __module__, __name__.lower(), snake_case(__name__)
Customer ==
    [name |-> "Customer", module |-> "customer", lower |-> "customer",
     snake |-> "customer"]
InvoiceLineItem ==
    [name |-> "LineItem", module |-> "invoice", lower |-> "lineitem",
     snake |-> "line_item"]

NoMeta == [page |-> 0, per_page |-> 0, total_entries |-> 0, total_pages |-> 0]
NoValue == [shape |-> "none", rows |-> <<>>, meta |-> NoMeta]

\* a row as the service sends it
Row(id, invoice_id, rev) ==
    [id |-> id, invoice_id |-> invoice_id, rev |-> rev, form |-> "payload"]

\* what the service may hold when it is asked
SmallStore == <<Row(1, 1, 1), Row(3, 2, 1)>>
LargeStore == <<Row(1, 1, 2), Row(2, 1, 1), Row(3, 2, 1)>>

\* the service during one call: its rows, the page (if any) whose answer fails,
\* in transport (request raises) or by a payload of the wrong shape, whether its
\* list answers carry the "meta" object, and the key its by-id answers put the
\* model under
Servers ==
    { [store |-> SmallStore, fault |-> "none", fault_page |-> 0,
       meta |-> "present", model_key |-> "snake"],
      [store |-> LargeStore, fault |-> "none", fault_page |-> 0,
       meta |-> "present", model_key |-> "snake"],
      [store |-> SmallStore, fault |-> "request_error", fault_page |-> 1,
       meta |-> "present", model_key |-> "snake"],
      [store |-> SmallStore, fault |-> "invalid_row", fault_page |-> 1,
       meta |-> "present", model_key |-> "snake"],
      [store |-> LargeStore, fault |-> "request_error", fault_page |-> 2,
       meta |-> "present", model_key |-> "snake"] }

\* ceil(n / d)
CeilDiv(n, d) == (n + d - 1) \div d

\* the rows a list request selects
ServerRows(srv, model_name, params) ==
    LET wanted(row) == row.invoice_id = ParamValue(params, "invoice_id", 0)
    IN  IF model_name = "line_item" /\ HasParam(params, "invoice_id")
        THEN SelectSeq(srv.store, wanted)
        ELSE srv.store

\* the (rows, meta) of the answer to a list request
ServerListAnswer(srv, model_name, params) ==
    LET rows == ServerRows(srv, model_name, params)
        page == ParamValue(params, "page", 1)
        first == (page - 1) * ServerPerPage + 1
        last == IF page * ServerPerPage < Len(rows)
                THEN page * ServerPerPage ELSE Len(rows)
    IN  [shape |-> "list",
         rows |-> SubSeq(rows, first, last),
         meta |-> IF srv.meta = "absent" THEN NoMeta
                  ELSE [page |-> page, per_page |-> ServerPerPage,
                        total_entries |-> Len(rows),
                        total_pages |-> CeilDiv(Len(rows), ServerPerPage)]]

\* the answer's fault, if the request is for the page that fails
ServerFault(srv, page) ==
    IF srv.fault # "none" /\ srv.fault_page = page THEN srv.fault ELSE "none"

\* response.json() of a list request, by its types: the payload, the value under
\* f"{model_name}s", the items of that list, the value under "meta"
ListPayload(srv, page) ==
    LET fault == ServerFault(srv, page)
    IN  [payload |-> IF fault = "payload_not_object" THEN "array" ELSE "object",
         collection |-> IF fault = "collection_missing" THEN "missing" ELSE "array",
         items |-> IF fault = "invalid_row" THEN "scalar" ELSE "object",
         meta |-> IF fault = "invalid_meta" THEN "string"
                  ELSE IF srv.meta = "absent" THEN "null" ELSE "object"]

\* the meta check is left out
ListPayloadErrorIgnoringMeta(payload) ==
    IF payload.payload # "object" THEN "Unexpected payload type"
    ELSE IF payload.collection # "array" THEN "Missing or invalid list"
    ELSE IF payload.items \notin {"object", "array"} THEN "Invalid item payload type"
    ELSE ""

\* the checks of fetch_from_api on the payload: the message of the ValueError it
\* raises, "" when the payload passes
ListPayloadError(payload) ==
    IF payload.payload # "object" THEN "Unexpected payload type"
    ELSE IF payload.collection # "array" THEN "Missing or invalid list"
    ELSE IF payload.items \notin {"object", "array"} THEN "Invalid item payload type"
    ELSE IF payload.meta \notin {"null", "object"} THEN "Invalid 'meta' payload type"
    ELSE ""

\* response.json() of a by-id request, by its types: the payload, the key it holds
\* and the value under that key
ByIdPayload(srv, model) ==
    LET fault == ServerFault(srv, 1)
    IN  [payload |-> IF fault = "payload_not_object" THEN "array" ELSE "object",
         key |-> IF srv.model_key = "snake" THEN model.snake
                 ELSE IF srv.model_key = "lower" THEN model.lower
                 ELSE "wrong",
         value |-> IF fault = "empty_model" THEN "empty_object"
                   ELSE IF fault = "null_model" THEN "null"
                   ELSE IF fault = "model_not_object" THEN "array"
                   ELSE "object"]

\* `if not result` is left out
ByIdPayloadErrorAcceptingEmpty(payload, model) ==
    IF payload.payload # "object" THEN "Unexpected payload type"
    ELSE IF payload.key \notin {model.snake, model.lower}
    THEN "Could not locate model payload"
    ELSE IF payload.value \notin {"object", "empty_object"}
    THEN "Invalid payload type"
    ELSE ""

\* the checks of fetch_from_api_by_id on the payload: the message of the
\* ValueError it raises, "" when the payload passes
ByIdPayloadError(payload, model) ==
    IF payload.payload # "object" THEN "Unexpected payload type"
    ELSE IF payload.key \notin {model.snake, model.lower}
    THEN "Could not locate model payload"
    ELSE IF payload.value \in {"empty_object", "null"} THEN "Could not find"
    ELSE IF payload.value # "object" THEN "Invalid payload type"
    ELSE ""

\* a call's result when nothing was fetched
NoFetch(c) == [c |-> c, net |-> <<>>, kind |-> "return", value |-> NoValue,
               raised |-> ""]

\* the call raised
Raised(c, net, exception) ==
    [c |-> c, net |-> net, kind |-> "raise", value |-> NoValue, raised |-> exception]

\* the result is returned without being cached
StoreNothing(cached, key, value) == cached

\* self._cache[cache_key] = result
StoreResult(cached, key, value) == (key :> value) @@ cached

\* fetch_from_api(model_name, params) on the Client c = [cache, has_line_item_in_cache,
\* updated_at]; net lists the network requests made, with their key and outcome
FetchFromApi(c, model_name, params, srv) ==
    LET key == ListCacheKey(model_name, params)
        fault == ServerFault(srv, ParamValue(params, "page", 1))
        result == ServerListAnswer(srv, model_name, params)
    IN  IF key \in DOMAIN c.cache
        THEN [c |-> c, net |-> <<>>, kind |-> "return", value |-> c.cache[key],
              raised |-> ""]
        ELSE IF fault = "request_error"
        THEN Raised(c, <<[key |-> key, outcome |-> fault, value |-> NoValue]>>,
                    "RequestException")
        ELSE IF ListPayloadError(ListPayload(srv, ParamValue(params, "page", 1))) # ""
        THEN Raised(c, <<[key |-> key, outcome |-> "invalid_payload",
                          value |-> NoValue]>>,
                    "ValueError")
        ELSE [c |-> [c EXCEPT !.cache = StoreResult(c.cache, key, result)],
              net |-> <<[key |-> key, outcome |-> "ok", value |-> result]>>,
              kind |-> "return", value |-> result, raised |-> ""]

\* the accumulator of the loop of get_model after one more page was asked for
AfterPage(acc, fetched, page) ==
    [c |-> fetched.c,
     net |-> acc.net \o fetched.net,
     rows |-> acc.rows \o fetched.value.rows,
     pages |-> Append(acc.pages, page),
     raised |-> fetched.raised]

\* page += 1 whatever num_last_pages is
NextPageSequential(fetched, page, num_last_pages) ==
    LET meta == fetched.value.meta
    IN  IF fetched.kind = "raise" THEN 0
        ELSE IF meta = NoMeta \/ page >= meta.total_pages THEN 0
        ELSE page + 1

\* the loop ends one page before the last
NextPageStoppingEarly(fetched, page, num_last_pages) ==
    LET meta == fetched.value.meta
    IN  IF fetched.kind = "raise" THEN 0
        ELSE IF meta = NoMeta \/ page + 1 >= meta.total_pages THEN 0
        ELSE page + 1

\* the page get_model asks for after `page`, 0 when the loop ends there
NextPage(fetched, page, num_last_pages) ==
    LET meta == fetched.value.meta
        start_page == IF meta.total_pages - num_last_pages + 1 > 1
                      THEN meta.total_pages - num_last_pages + 1 ELSE 1
    IN  IF fetched.kind = "raise" THEN 0
        ELSE IF meta = NoMeta \/ page >= meta.total_pages THEN 0
        ELSE IF page = 1 /\ meta.total_pages > 1 /\ num_last_pages # 0
        THEN IF page + 1 > start_page THEN page + 1 ELSE start_page
        ELSE page + 1

RECURSIVE GetModelLoop(_, _, _, _, _, _)
\* the while loop of get_model, consumed to its end; acc gathers the Client,
\* the requests, the rows yielded and the pages asked for.  (The set
\* constructors bind each intermediate result once it is computed.)
GetModelLoop(acc, model_name, params, page, num_last_pages, srv) ==
    CHOOSE result \in
        { IF step.next_page = 0 THEN step.acc
          ELSE GetModelLoop(step.acc, model_name, step.params, step.next_page,
                            num_last_pages, srv) :
            step \in
              { [acc |-> AfterPage(acc, fetched, page),
                 params |-> SetParam(params, "page", page),
                 next_page |-> NextPage(fetched, page, num_last_pages)] :
                  fetched \in {FetchFromApi(acc.c, model_name,
                                            SetParam(params, "page", page), srv)} } } :
        TRUE

\* get_model(model, updated_at, num_last_pages, params); None is NoTime / 0 / <<>>
GetModel(c, model, updated_at, num_last_pages, params, srv) ==
    LET c1 == IF updated_at # NoTime THEN [c EXCEPT !.updated_at = updated_at] ELSE c
        p1 == IF updated_at # NoTime
              THEN SetParam(params, "since_updated_at", updated_at)
              ELSE params
    IN  GetModelLoop([c |-> c1, net |-> <<>>, rows |-> <<>>, pages |-> <<>>,
                      raised |-> ""],
                     model.snake, p1, 1, num_last_pages, srv)

\* model.from_dict(data) and then the public items of the object's __dict__: the
\* row is no longer the payload the service sent but the fields of the model object
PublicFields(row) == [row EXCEPT !.form = "fields"]

\* relative_cutoff(self.updated_at, delta=timedelta(weeks=52))
RelativeCutoff == NowWeek - PREFETCH_CUTOFF_WEEKS

\* the cache entries prefetch_line_items builds from the line items it listed
PrefetchEntries(line_items) ==
    LET of_invoice(i) ==
            LET wanted(row) == row.invoice_id = i IN SelectSeq(line_items, wanted)
        total_pages(i) == CeilDiv(Len(of_invoice(i)), PREFETCH_PER_PAGE)
        params_of(i, page) ==
            IF page > 1 THEN <<<<"invoice_id", i>>, <<"page", page>>>>
            ELSE <<<<"invoice_id", i>>>>
        keys == {ListCacheKey("line_item", params_of(line_items[n].invoice_id, page)) :
                    n \in DOMAIN line_items,
                    page \in 1..CeilDiv(Len(line_items), PREFETCH_PER_PAGE)}
        used == {k \in keys :
                    ParamValue(k.params, "page", 1)
                        <= total_pages(ParamValue(k.params, "invoice_id", 0))}
    IN  [k \in used |->
            LET i == ParamValue(k.params, "invoice_id", 0)
                page == ParamValue(k.params, "page", 1)
                start_index == (page - 1) * PREFETCH_PER_PAGE
                end_index == IF start_index + PREFETCH_PER_PAGE < Len(of_invoice(i))
                             THEN start_index + PREFETCH_PER_PAGE
                             ELSE Len(of_invoice(i))
            IN  [shape |-> "list",
                 rows |-> SubSeq(of_invoice(i), start_index + 1, end_index),
                 meta |-> [page |-> page, per_page |-> PREFETCH_PER_PAGE,
                           total_entries |-> Len(of_invoice(i)),
                           total_pages |-> total_pages(i)]]]

\* a datetime: an instant of the time axis when aware, a wall-clock reading
\* without zone when naive; None is is_none
NoDatetime == [is_none |-> TRUE, naive |-> FALSE, t |-> 0]
Datetime(naive, t) == [is_none |-> FALSE, naive |-> naive, t |-> t]

\* relative_cutoff(reference, delta=timedelta(weeks=52)): now less delta, naive
\* for a naive reference and in the reference's zone for an aware one
RelativeCutoffOf(reference) == Datetime(reference.naive, RelativeCutoff)

\* self.updated_at > prefetch_cutoff; Python raises TypeError for a naive and an
\* aware operand
NewerThanCutoff(updated_at) ==
    IF updated_at.naive # RelativeCutoffOf(updated_at).naive THEN "TypeError"
    ELSE IF updated_at.t > RelativeCutoffOf(updated_at).t THEN "yes"
    ELSE "no"

\* prefetch_line_items that never takes the early return for a recent updated_at
SkipsPrefetchNever(c) == FALSE

\* if self.updated_at: ... if self.updated_at > prefetch_cutoff: return
\* (the updated_at the sync passes to get_model is aware)
SkipsPrefetch(c) ==
    c.updated_at # NoTime /\ NewerThanCutoff(Datetime(FALSE, c.updated_at)) = "yes"

\* prefetch_line_items()
PrefetchLineItems(c, srv) ==
    IF c.has_line_item_in_cache THEN NoFetch(c)
    ELSE IF SkipsPrefetch(c) THEN NoFetch(c)
    ELSE CHOOSE result \in
            { IF listed.raised # "" THEN Raised(listed.c, listed.net, listed.raised)
              ELSE [c |-> [listed.c EXCEPT
                              !.cache = PrefetchEntries(
                                            [n \in DOMAIN listed.rows |->
                                                PublicFields(listed.rows[n])])
                                        @@ listed.c.cache,
                              !.has_line_item_in_cache = TRUE],
                    net |-> listed.net, kind |-> "return", value |-> NoValue,
                    raised |-> ""] :
                listed \in {GetModel(c, InvoiceLineItem, NoTime, 0,
                                     <<<<"invoice_id_not_null", 1>>>>, srv)} } :
            TRUE

\* fetch_from_api_by_id(model, instance_id) once prefetch_line_items has run (or
\* was not called) with the result `prefetched`
FetchById(prefetched, model, instance_id, srv) ==
    LET c1 == prefetched.c
        key == IdCacheKey(model, instance_id)
        found == {n \in DOMAIN srv.store : srv.store[n].id = instance_id}
        fault == ServerFault(srv, 1)
        result == [shape |-> "object",
                   rows |-> <<srv.store[CHOOSE n \in found : TRUE]>>,
                   meta |-> NoMeta]
        failed(how) ==
            prefetched.net \o <<[key |-> key, outcome |-> how, value |-> NoValue]>>
    IN  IF prefetched.kind = "raise" THEN prefetched
        ELSE IF key \in DOMAIN c1.cache
        THEN IF c1.cache[key].shape = "object"
             THEN [c |-> c1, net |-> prefetched.net, kind |-> "return",
                   value |-> c1.cache[key], raised |-> ""]
             ELSE Raised(c1, prefetched.net, "TypeError")
        ELSE IF fault = "request_error"
        THEN Raised(c1, failed(fault), "RequestException")
        ELSE IF found = {}
        THEN \* the service answers 404, request raises ValueError
             Raised(c1, failed("not_found"), "ValueError")
        ELSE IF ByIdPayloadError(ByIdPayload(srv, model), model) # ""
        THEN Raised(c1, failed("invalid_payload"), "ValueError")
        ELSE [c |-> [c1 EXCEPT !.cache = StoreResult(c1.cache, key, result)],
              net |-> prefetched.net
                      \o <<[key |-> key, outcome |-> "ok", value |-> result]>>,
              kind |-> "return", value |-> result, raised |-> ""]

\* fetch_from_api_by_id(model, instance_id)
FetchFromApiById(c, model, instance_id, srv) ==
    CHOOSE result \in
        { FetchById(prefetched, model, instance_id, srv) :
            prefetched \in
              { IF model.name = "LineItem" /\ model.module = "invoice"
                THEN PrefetchLineItems(c, srv) ELSE NoFetch(c) } } :
        TRUE

\* normalize_related_payload(candidate): datetime and date values become their
\* isoformat() text; a row of the service holds none
Normalized(row) == IF row.form = "fields" THEN [row EXCEPT !.form = "isoformat"] ELSE row

RECURSIVE CacheRelated(_, _, _)
\* instance.rs_client._cache[f"{model_cls.__name__.lower()}_{result_id}"] =
\* normalized_result, for every result of a page
CacheRelated(cached, model, results) ==
    IF results = <<>> THEN cached
    ELSE CacheRelated(
             (IdCacheKey(model, Head(results).id)
                 :> [shape |-> "object", rows |-> <<Normalized(Head(results))>>,
                     meta |-> NoMeta]) @@ cached,
             model, Tail(results))

\* the accumulator of the loop of fetch_related_models_by_parent after one more page
AfterRelatedPage(acc, fetched, model) ==
    [c |-> IF fetched.kind = "raise" THEN fetched.c
           ELSE [fetched.c EXCEPT
                    !.cache = CacheRelated(fetched.c.cache, model, fetched.value.rows)],
     net |-> acc.net \o fetched.net,
     rows |-> acc.rows \o [n \in DOMAIN fetched.value.rows |->
                              Normalized(fetched.value.rows[n])],
     kind |-> fetched.kind,
     raised |-> fetched.raised]

\* the parameters of the page `page` of a per-parent lookup
PageParams(query_params, page) ==
    IF page > 1 THEN SetParam(query_params, "page", page) ELSE query_params

RECURSIVE RelatedLoop(_, _, _, _, _)
\* the while loop of fetch_related_models_by_parent
RelatedLoop(acc, model, query_params, page, srv) ==
    CHOOSE result \in
        { IF step.fetched.kind = "raise"
             \/ step.fetched.value.meta = NoMeta
             \/ page >= step.fetched.value.meta.total_pages
          THEN step.acc
          ELSE RelatedLoop(step.acc, model, query_params, page + 1, srv) :
            step \in
              { [acc |-> AfterRelatedPage(acc, fetched, model), fetched |-> fetched] :
                  fetched \in {FetchFromApi(acc.c, model.snake,
                                            PageParams(query_params, page), srv)} } } :
        TRUE

\* fetch_related_models_by_parent(instance, query_params) of related_field(model)
FetchRelatedModelsByParent(c, model, query_params, srv) ==
    CHOOSE result \in
        { IF prefetched.kind = "raise"
          THEN [c |-> prefetched.c, net |-> prefetched.net, rows |-> <<>>,
                kind |-> "raise", raised |-> prefetched.raised]
          ELSE RelatedLoop([c |-> prefetched.c, net |-> prefetched.net, rows |-> <<>>,
                            kind |-> "return", raised |-> ""],
                           model, query_params, 1, srv) :
            prefetched \in
              { IF model.name = "LineItem" /\ model.module = "invoice"
                THEN PrefetchLineItems(c, srv) ELSE NoFetch(c) } } :
        TRUE

\* the Client object the calls work on
ClientState ==
    [cache |-> cache, has_line_item_in_cache |-> has_line_item_in_cache,
     updated_at |-> client_updated_at]

NoCall ==
    [op |-> "none", key |-> ListCacheKey("", <<>>), kind |-> "return",
     value |-> NoValue, raised |-> "", hit |-> FALSE, known |-> FALSE,
     requests |-> 0, network |-> 0]

RECURSIVE RecordRequests(_, _)
\* the requests of one call added to the count per cache key
RecordRequests(counts, net) ==
    IF net = <<>> THEN counts
    ELSE LET k == Head(net).key
             old == IF k \in DOMAIN counts THEN counts[k] ELSE [total |-> 0, ok |-> 0]
             new == [total |-> old.total + 1,
                     ok |-> old.ok + IF Head(net).outcome = "ok" THEN 1 ELSE 0]
         IN  RecordRequests((k :> new) @@ counts, Tail(net))

RECURSIVE RecordFirstCached(_, _)
\* the value of the first well-answered request per cache key
RecordFirstCached(firsts, net) ==
    IF net = <<>> THEN firsts
    ELSE LET k == Head(net).key
         IN  RecordFirstCached(
                 IF Head(net).outcome = "ok" /\ k \notin DOMAIN firsts
                 THEN (k :> Head(net).value) @@ firsts ELSE firsts,
                 Tail(net))

\* the payload of the one answer of a call: whether a response arrived at all,
\* and the types of its parts
NoAnswer ==
    [received |-> FALSE, payload |-> "", collection |-> "", items |-> "",
     meta |-> "", key |-> "", value |-> ""]

\* no get_model was consumed by the latest call
NoListing ==
    [num_last_pages |-> 0, total_pages |-> 0, meta |-> "present", store |-> <<>>,
     pages |-> <<>>, rows |-> <<>>, raised |-> ""]

\* the Client after a call, and what the call is remembered by
AfterCall(op, key, r, listing, answer) ==
    /\ cache' = r.c.cache
    /\ has_line_item_in_cache' = r.c.has_line_item_in_cache
    /\ client_updated_at' = r.c.updated_at
    /\ net_requests' = RecordRequests(net_requests, r.net)
    /\ first_cached' = RecordFirstCached(first_cached, r.net)
    /\ last_call' = [op |-> op, key |-> key, kind |-> r.kind, value |-> r.value,
                     raised |-> r.raised,
                     hit |-> key \in DOMAIN cache,
                     known |-> key \in DOMAIN first_cached,
                     requests |-> Cardinality({n \in DOMAIN r.net :
                                                  r.net[n].key = key}),
                     network |-> Len(r.net)]
    /\ last_listing' = listing
    /\ last_answer' = answer
    /\ calls_made' = calls_made + 1

\* the list requests callers make
ListCalls ==
    { [model |-> "customer", params |-> <<>>],
      [model |-> "line_item", params |-> <<<<"invoice_id", 1>>>>],
      [model |-> "line_item", params |-> <<<<"invoice_id", 1>>, <<"page", 2>>>>],
      [model |-> "line_item", params |-> <<<<"page", 2>>, <<"invoice_id", 1>>>>] }

\* the by-id requests callers make
IdCalls ==
    { [model |-> Customer, id |-> 1],
      [model |-> InvoiceLineItem, id |-> 1],
      [model |-> InvoiceLineItem, id |-> 2] }

\* the updated_at callers pass to get_model
UpdatedAtChoices == {RelativeCutoff - 1, RelativeCutoff, RelativeCutoff + 1}

CacheInit ==
    /\ cache = <<>>
    /\ has_line_item_in_cache = FALSE
    /\ client_updated_at = NoTime
    /\ net_requests = <<>>
    /\ first_cached = <<>>
    /\ last_call = NoCall
    /\ last_listing = NoListing
    /\ last_answer = NoAnswer
    /\ calls_made = 0

\* a caller calls fetch_from_api(model_name, params)
FetchFromApiCall ==
    /\ calls_made < MaxCalls
    /\ \E call \in ListCalls, srv \in Servers :
          \E r \in {FetchFromApi(ClientState, call.model, call.params, srv)} :
              AfterCall("fetch_from_api", ListCacheKey(call.model, call.params), r,
                        NoListing, NoAnswer)

\* a caller calls fetch_from_api_by_id(model, instance_id)
FetchFromApiByIdCall ==
    /\ calls_made < MaxCalls
    /\ \E call \in IdCalls, srv \in Servers :
          \E r \in {FetchFromApiById(ClientState, call.model, call.id, srv)} :
              AfterCall("fetch_from_api_by_id", IdCacheKey(call.model, call.id), r,
                        NoListing, NoAnswer)

\* what a consumed get_model is remembered by: the service it listed, the window
\* it was asked for, the pages it asked fetch_from_api for and the rows it yielded
Listing(got, num_last_pages, srv) ==
    [num_last_pages |-> num_last_pages,
     total_pages |-> CeilDiv(Len(srv.store), ServerPerPage),
     meta |-> srv.meta, store |-> srv.store,
     pages |-> got.pages, rows |-> got.rows, raised |-> got.raised]

\* the Client after get_model(model, updated_at, num_last_pages) was consumed
AfterGetModel(got, model, updated_at, num_last_pages, srv) ==
    AfterCall("get_model",
              ListCacheKey(model.snake,
                           IF updated_at # NoTime
                           THEN <<<<"since_updated_at", updated_at>>, <<"page", 1>>>>
                           ELSE <<<<"page", 1>>>>),
              [c |-> got.c, net |-> got.net, value |-> NoValue,
               raised |-> got.raised,
               kind |-> IF got.raised = "" THEN "return" ELSE "raise"],
              Listing(got, num_last_pages, srv), NoAnswer)

\* a caller consumes get_model(Customer, updated_at)
GetModelCall ==
    /\ calls_made < MaxCalls
    /\ \E updated_at \in UpdatedAtChoices, srv \in Servers :
          \E got \in {GetModel(ClientState, Customer, updated_at, 0, <<>>, srv)} :
              AfterGetModel(got, Customer, updated_at, 0, srv)

\* (changed) clear_cache empties the cache and keeps the prefetched flag
ClearCacheKeepingFlag ==
    /\ cache' = <<>>
    /\ net_requests' = <<>>
    /\ first_cached' = <<>>
    /\ last_call' = [NoCall EXCEPT !.op = "clear_cache"]
    /\ last_listing' = NoListing
    /\ last_answer' = NoAnswer
    /\ UNCHANGED <<has_line_item_in_cache, client_updated_at, calls_made>>

\* clear_cache(): self._cache.clear(); self._has_line_item_in_cache = False; the
\* history starts afresh
ClearCacheCalled ==
    /\ cache' = <<>>
    /\ has_line_item_in_cache' = FALSE
    /\ net_requests' = <<>>
    /\ first_cached' = <<>>
    /\ last_call' = [NoCall EXCEPT !.op = "clear_cache"]
    /\ last_listing' = NoListing
    /\ last_answer' = NoAnswer
    /\ UNCHANGED <<client_updated_at, calls_made>>

\* a caller calls clear_cache() on a Client that holds something
ClearCache ==
    /\ cache # <<>> \/ has_line_item_in_cache
    /\ ClearCacheCalled

\* pages a listing of the service spans at most
MaxPages == 5
\* the largest num_last_pages callers pass (0 is None)
MaxLastPages == 3

\* a listing of n rows
PagedStore(n) == [i \in 1..n |-> Row(i, 1, 1)]

\* the services get_model lists: total_pages pages of rows, the last one full or
\* one row short, with or without "meta", page 2 failing or not
PagedServers ==
    { [store |-> PagedStore(Max(0, total_pages * ServerPerPage - short)),
       fault |-> failing[1], fault_page |-> failing[2], meta |-> meta, model_key |-> "snake"] :
        total_pages \in 0..MaxPages,
        short \in {0, 1},
        failing \in {<<"none", 0>>, <<"request_error", 2>>},
        meta \in {"present", "absent"} }

\* a caller consumes get_model(Customer, updated_at, num_last_pages) for a model
\* it has not listed since clear_cache
GetModelPagesCall ==
    /\ calls_made < MaxCalls
    /\ cache = <<>>
    /\ \E srv \in PagedServers, num_last_pages \in 0..MaxLastPages,
          updated_at \in {NoTime, RelativeCutoff} :
          \E got \in {GetModel(ClientState, Customer, updated_at, num_last_pages,
                                <<>>, srv)} :
              AfterGetModel(got, Customer, updated_at, num_last_pages, srv)

\* an invoice with more line items than one prefetched page holds, and one with one
ParentStore ==
    [i \in 1..(PREFETCH_PER_PAGE + 1) |-> Row(i, 1, 1)]
    \o <<Row(PREFETCH_PER_PAGE + 2, 2, 1)>>

\* the service while line items are prefetched and looked up
PrefetchServers ==
    { [store |-> ParentStore, fault |-> "none", fault_page |-> 0,
       meta |-> "present", model_key |-> "snake"],
      [store |-> SmallStore, fault |-> "none", fault_page |-> 0,
       meta |-> "present", model_key |-> "snake"],
      [store |-> ParentStore, fault |-> "request_error", fault_page |-> 2,
       meta |-> "present", model_key |-> "snake"],
      [store |-> SmallStore, fault |-> "request_error", fault_page |-> 1,
       meta |-> "present", model_key |-> "snake"] }

\* the invoices whose line_items are looked up; invoice 3 has no line item
ParentInvoices == {1, 2, 3}

\* the flat line-item pages prefetch_line_items lists
FlatKey(page) ==
    ListCacheKey("line_item", <<<<"invoice_id_not_null", 1>>, <<"page", page>>>>)
IsFlatKey(k) ==
    k.model = "line_item" /\ k.kind = "list" /\ HasParam(k.params, "invoice_id_not_null")

\* an invoice's line_items are read: fetch_related_models_by_parent with
\* query_params {"invoice_id": parent}
FetchRelatedCall ==
    /\ calls_made < MaxCalls
    /\ \E parent \in ParentInvoices, srv \in PrefetchServers :
          \E r \in {FetchRelatedModelsByParent(ClientState, InvoiceLineItem,
                                               <<<<"invoice_id", parent>>>>, srv)} :
              AfterCall("fetch_related_models_by_parent",
                        ListCacheKey("line_item", <<<<"invoice_id", parent>>>>),
                        [c |-> r.c, net |-> r.net, kind |-> r.kind, raised |-> r.raised,
                         value |-> [shape |-> "list", rows |-> r.rows, meta |-> NoMeta]],
                        NoListing, NoAnswer)

\* a caller calls fetch_from_api_by_id(LineItem, 1) for an invoice line item
FetchLineItemByIdCall ==
    /\ calls_made < MaxCalls
    /\ \E srv \in PrefetchServers :
          \E r \in {FetchFromApiById(ClientState, InvoiceLineItem, 1, srv)} :
              AfterCall("fetch_from_api_by_id", IdCacheKey(InvoiceLineItem, 1), r,
                        NoListing, NoAnswer)

\* a caller consumes get_model(Customer, updated_at), which sets Client.updated_at
GetModelSinceCall ==
    /\ calls_made < MaxCalls
    /\ \E updated_at \in UpdatedAtChoices :
          \E srv \in {[store |-> SmallStore, fault |-> "none", fault_page |-> 0,
                        meta |-> "present", model_key |-> "snake"]} :
          \E got \in {GetModel(ClientState, Customer, updated_at, 0, <<>>, srv)} :
              AfterGetModel(got, Customer, updated_at, 0, srv)

PrefetchNext ==
    \/ FetchRelatedCall /\ UNCHANGED <<orch_vars, req_vars, side_vars>>
    \/ FetchLineItemByIdCall /\ UNCHANGED <<orch_vars, req_vars, side_vars>>
    \/ GetModelSinceCall /\ UNCHANGED <<orch_vars, req_vars, side_vars>>
    \/ ClearCache /\ UNCHANGED <<orch_vars, req_vars, side_vars>>

\* calls of the Client on payloads of all shapes in one behaviour
MaxPayloadCalls == 2

\* the model class of the tests: DummyModel, "dummymodel", "dummy_model"
DummyModel ==
    [name |-> "DummyModel", module |-> "test_client", lower |-> "dummymodel",
     snake |-> "dummy_model"]

\* the service answering one list request: well, not at all, or with a payload
\* of the wrong shape
ListPayloadServers ==
    { [store |-> SmallStore, fault |-> fault,
       fault_page |-> IF fault = "none" THEN 0 ELSE 1,
       meta |-> meta, model_key |-> "snake"] :
        fault \in {"none", "request_error", "payload_not_object",
                   "collection_missing", "invalid_row", "invalid_meta"},
        meta \in {"present", "absent"} }

\* the service answering one by-id request
ByIdPayloadServers ==
    { [store |-> SmallStore, fault |-> fault,
       fault_page |-> IF fault = "none" THEN 0 ELSE 1,
       meta |-> "present", model_key |-> model_key] :
        fault \in {"none", "request_error", "payload_not_object", "empty_model",
                   "null_model", "model_not_object"},
        model_key \in {"snake", "lower", "wrong"} }

\* a caller calls fetch_from_api(model_name, params) and the service answers
\* with the payload recorded
FetchListPayloadCall ==
    /\ calls_made < MaxPayloadCalls
    /\ \E call \in {[model |-> "dummy_model", params |-> <<>>],
                     [model |-> "dummy_model", params |-> <<<<"invoice_id", 1>>>>]},
          srv \in ListPayloadServers :
          \E r \in {FetchFromApi(ClientState, call.model, call.params, srv)} :
              AfterCall("fetch_from_api", ListCacheKey(call.model, call.params), r,
                        NoListing,
                        [received |-> srv.fault # "request_error", key |-> "",
                         value |-> ""] @@ ListPayload(srv, 1))

\* a caller calls fetch_from_api_by_id(DummyModel, instance_id) and the service
\* answers with the payload recorded
FetchByIdPayloadCall ==
    /\ calls_made < MaxPayloadCalls
    /\ \E instance_id \in {1, 3}, srv \in ByIdPayloadServers :
          \E r \in {FetchFromApiById(ClientState, DummyModel, instance_id, srv)} :
              AfterCall("fetch_from_api_by_id", IdCacheKey(DummyModel, instance_id), r,
                        NoListing,
                        [received |-> srv.fault # "request_error", collection |-> "",
                         items |-> "", meta |-> ""] @@ ByIdPayload(srv, DummyModel))

PayloadNext ==
    \/ FetchListPayloadCall /\ UNCHANGED <<orch_vars, req_vars, side_vars>>
    \/ FetchByIdPayloadCall /\ UNCHANGED <<orch_vars, req_vars, side_vars>>
    \/ ClearCache /\ UNCHANGED <<orch_vars, req_vars, side_vars>>

PagingNext ==
    \/ GetModelPagesCall /\ UNCHANGED <<orch_vars, req_vars, side_vars>>
    \/ ClearCache /\ UNCHANGED <<orch_vars, req_vars, side_vars>>

CacheNext ==
    \/ FetchFromApiCall /\ UNCHANGED <<orch_vars, req_vars, side_vars>>
    \/ FetchFromApiByIdCall /\ UNCHANGED <<orch_vars, req_vars, side_vars>>
    \/ GetModelCall /\ UNCHANGED <<orch_vars, req_vars, side_vars>>
    \/ ClearCache /\ UNCHANGED <<orch_vars, req_vars, side_vars>>

-----------------------------------------------------------------------------
(* Two Client objects of one process.  _cache and _request_timestamps are    *)
(* bound in the class body and __init__ binds neither on the instance, so    *)
(* self._cache and self._request_timestamps are the class's objects.         *)

\* calls on the Client objects in one behaviour
MaxInstanceCalls == 3

Clients == {"first_client", "second_client"}

\* self._cache on the Client object client
SelfCache(client) == cache

\* self._request_timestamps on the Client object client
SelfRequestTimestamps(client) == request_timestamps

NoInstanceCall == [client |-> "none", op |-> "none"]

InstanceInit ==
    /\ instances = [client \in Clients |->
                       [updated_at |-> NoTime, has_line_item_in_cache |-> FALSE,
                        api_sleep_time |-> 0]]
    /\ cached_through = <<>>
    /\ recorded_through = <<>>
    /\ last_instance_call = NoInstanceCall
    /\ instance_calls = 0

\* what the calls on a Client object leave alone
instance_frame ==
    <<orch_vars, heartbeat_vars, status_vars, watchdog_vars, upsert_vars,
      base_model_vars, script_vars,
      api_sleep_time, req_pc, attempt_number, responses, errors, retry_sleeps,
      outcome, attempts_made,
      has_line_item_in_cache, client_updated_at, net_requests, first_cached,
      last_call, last_listing, last_answer, calls_made>>

\* the list requests made through the Client objects
InstanceListCalls ==
    { [model |-> "customer", params |-> <<>>],
      [model |-> "line_item", params |-> <<<<"invoice_id", 1>>>>] }

\* the service while the Client objects call it
InstanceServers ==
    { [store |-> SmallStore, fault |-> "none", fault_page |-> 0,
       meta |-> "present", model_key |-> "snake"],
      [store |-> SmallStore, fault |-> "invalid_row", fault_page |-> 1,
       meta |-> "present", model_key |-> "snake"] }

\* client.fetch_from_api(model_name, params): on a cache miss the request passes
\* the limiter, which records it
InstanceFetchFromApi(client) ==
    /\ instance_calls < MaxInstanceCalls
    /\ \E call \in InstanceListCalls, srv \in InstanceServers :
          \E r \in {FetchFromApi([cache |-> SelfCache(client),
                                   has_line_item_in_cache |->
                                       instances[client].has_line_item_in_cache,
                                   updated_at |-> instances[client].updated_at],
                                  call.model, call.params, srv)} :
          \E waited \in {WaitForRateLimit(
                             Elapse(SelfRequestTimestamps(client), HttpSeconds),
                             instances[client].api_sleep_time, 0)} :
              /\ cache' = r.c.cache
              /\ cached_through' =
                     [k \in DOMAIN r.c.cache |->
                         IF k \in DOMAIN cache THEN cached_through[k] ELSE client]
              /\ IF r.net = <<>>
                 THEN UNCHANGED <<request_timestamps, recorded_through, instances>>
                 ELSE /\ request_timestamps' = waited.timestamps
                      /\ recorded_through' =
                             LET all == Append(recorded_through, client)
                             IN  SubSeq(all, Len(all) - Len(waited.timestamps) + 1,
                                        Len(all))
                      /\ instances' = [instances EXCEPT
                                          ![client].api_sleep_time =
                                              waited.api_sleep_time]
    /\ last_instance_call' = [client |-> client, op |-> "fetch_from_api"]
    /\ instance_calls' = instance_calls + 1
    /\ UNCHANGED instance_frame

\* client.clear_cache()
InstanceClearCache(client) ==
    /\ instance_calls < MaxInstanceCalls
    /\ cache' = <<>>
    /\ cached_through' = <<>>
    /\ instances' = [instances EXCEPT ![client].has_line_item_in_cache = FALSE]
    /\ last_instance_call' = [client |-> client, op |-> "clear_cache"]
    /\ instance_calls' = instance_calls + 1
    /\ UNCHANGED <<request_timestamps, recorded_through, instance_frame>>

\* time passes between two calls
InstanceIdle ==
    /\ instance_calls < MaxInstanceCalls
    /\ request_timestamps # Elapse(request_timestamps, IdleSeconds)
    /\ request_timestamps' = Elapse(request_timestamps, IdleSeconds)
    /\ UNCHANGED <<cache, instance_vars, instance_frame>>

InstanceNext ==
    \/ \E client \in Clients : InstanceFetchFromApi(client)
    \/ \E client \in Clients : InstanceClearCache(client)
    \/ InstanceIdle

-----------------------------------------------------------------------------
(* The heartbeat calls of a running cycle *)

\* calls that may write the heartbeat in one behaviour
MaxHeartbeatCalls == 3

\* the pages and the row counts the progress callback reports
ProgressPages ==
    {HEARTBEAT_PAGE_INTERVAL - 1, HEARTBEAT_PAGE_INTERVAL, 2 * HEARTBEAT_PAGE_INTERVAL}
ProgressRows ==
    {0, HEARTBEAT_RECORD_INTERVAL - 1, HEARTBEAT_RECORD_INTERVAL,
     2 * HEARTBEAT_RECORD_INTERVAL}
ProgressModels == {"customer", "invoice"}

\* what the heartbeat calls leave alone
heartbeat_frame ==
    <<pc, model_index, settings_last_updated_at, saved_last_updated_at, full_sync,
      start_updated_at, exc, cache_cleared, cycles, start_saved, raised_in,
      steps_done, save_ran, parity_violation, prev_status, prev_end,
      client_vars, instance_vars, status_vars, watchdog_vars, upsert_vars,
      base_model_vars,
                   script_vars>>

HeartbeatCalled(st, call) ==
    /\ cmd' = st.cmd
    /\ sync_status' = st.row
    /\ heartbeat_call' = call
    /\ heartbeat_calls' = heartbeat_calls + 1
    /\ UNCHANGED <<now, heartbeat_frame>>

\* handle marks the cycle as started
CycleStartedCall ==
    /\ cmd.cycle_id = 0
    /\ \E full \in BOOLEAN :
          HeartbeatCalled(MarkSyncCycleStarted(sync_status, full, 1, now),
                          "_mark_sync_cycle_started")

\* handle_model begins a model: _set_model_sync_progress(model_name)
SetModelSyncProgressCall ==
    /\ cmd.cycle_id # 0
    /\ heartbeat_calls < MaxHeartbeatCalls
    /\ \E model_name \in ProgressModels :
          HeartbeatCalled(SetModelSyncProgress([cmd |-> cmd, row |-> sync_status],
                                               now, model_name),
                          "_set_model_sync_progress")

\* _on_page_progress(model_name, page, processed_rows, ...): the fields are set
\* and the heartbeat is written if it is due
OnPageProgressCall ==
    /\ cmd.cycle_id # 0
    /\ heartbeat_calls < MaxHeartbeatCalls
    /\ \E model_name \in ProgressModels, page \in ProgressPages,
          processed_rows \in ProgressRows :
          HeartbeatCalled(
              MaybeWriteSyncHeartbeat(
                  [cmd |-> [cmd EXCEPT !.current_model = model_name,
                                       !.current_page = page,
                                       !.records_processed = processed_rows],
                   row |-> sync_status],
                  now, FALSE),
              "_on_page_progress")

\* time passes between two calls
HeartbeatTick ==
    /\ Tick
    /\ UNCHANGED <<client_vars, side_vars>>

HeartbeatNext ==
    \/ CycleStartedCall
    \/ SetModelSyncProgressCall
    \/ OnPageProgressCall
    \/ HeartbeatTick

HeartbeatInit ==
    /\ heartbeat_call = "none"
    /\ heartbeat_calls = 0

-----------------------------------------------------------------------------
(* The sync_status command.  Its clock is read in half seconds, so that a    *)
(* difference of two times need not be whole seconds.                        *)

\* a time of the cycle's clock, in half seconds
HalfSeconds(t) == t * SecondsPerTick * 2

\* int(x) for x = n / d: the fraction is cut off, towards zero
IntTrunc(n, d) == IF n >= 0 THEN n \div d ELSE 0 - ((0 - n) \div d)

\* the age is not clamped
AgeSecondsUnclamped(later, earlier) == <<IntTrunc(later - earlier, 2)>>

\* max(0, int((later - earlier).total_seconds())); <<>> is None
AgeSeconds(later, earlier) == <<Max(0, IntTrunc(later - earlier, 2))>>

\* Command._build_payload(stale_threshold_seconds) of sync_status, with
\* current_time = now() in half seconds; a row with id 0 is no row
BuildPayload(row, current_time, stale_threshold_seconds) ==
    IF row.id = 0
    THEN [status |-> "unknown", records_processed |-> 0,
          cycle_age_seconds |-> <<>>, heartbeat_age_seconds |-> <<>>,
          is_stale |-> FALSE]
    ELSE LET cycle_end ==
                 IF row.status = "running" THEN current_time
                 ELSE IF row.cycle_finished_at # NoTime
                 THEN HalfSeconds(row.cycle_finished_at)
                 ELSE current_time
             cycle_age_seconds ==
                 IF row.cycle_started_at # NoTime
                 THEN AgeSeconds(cycle_end, HalfSeconds(row.cycle_started_at))
                 ELSE <<>>
             heartbeat_age_seconds ==
                 IF row.last_heartbeat # NoTime
                 THEN AgeSeconds(current_time, HalfSeconds(row.last_heartbeat))
                 ELSE <<>>
         IN  [status |-> row.status, records_processed |-> row.records_processed,
              cycle_age_seconds |-> cycle_age_seconds,
              heartbeat_age_seconds |-> heartbeat_age_seconds,
              is_stale |-> /\ row.status = "running"
                           /\ heartbeat_age_seconds # <<>>
                           /\ 0 < stale_threshold_seconds
                           /\ stale_threshold_seconds < heartbeat_age_seconds[1]]

\* SystemExit(2) whenever the payload is stale
ExitCodeWhenStale(fail_on_stale, payload) == IF payload.is_stale THEN 2 ELSE 0

\* how handle ends: SystemExit(2), or 0 for a normal return
ExitCode(fail_on_stale, payload) ==
    IF fail_on_stale /\ payload.is_stale THEN 2 ELSE 0

\* the rows a reader may find: any status, times before and after its clock
StatusRows ==
    { [NoRow EXCEPT !.id = 1, !.status = status,
                    !.cycle_started_at = cycle_started_at,
                    !.cycle_finished_at = cycle_finished_at,
                    !.last_heartbeat = last_heartbeat] :
        status \in {"running", "success", "failed"},
        cycle_started_at \in {NoTime, FirstNow - 1, FirstNow + 1},
        cycle_finished_at \in {NoTime, FirstNow},
        last_heartbeat \in {NoTime, FirstNow - 1, FirstNow + 1} }

\* the values of --stale-threshold-seconds
StaleThresholds ==
    {-1, 0, SecondsPerTick - 1, SecondsPerTick, 2 * SecondsPerTick}

NoOptions ==
    [stale_threshold_seconds |-> 0, fail_on_stale |-> FALSE, current_time |-> 0]

\* what the command and the writers of the row it reads leave alone
status_frame ==
    <<pc, model_index, settings_last_updated_at, saved_last_updated_at, cmd, full_sync,
      start_updated_at, exc, cache_cleared, cycles, start_saved, raised_in,
      steps_done, save_ran, parity_violation, prev_status, prev_end,
      client_vars, instance_vars, heartbeat_vars, watchdog_vars, upsert_vars,
      base_model_vars,
                   script_vars>>

\* a sync process has written the row
StatusRowStored ==
    /\ exit_code = -1
    /\ sync_status = NoRow
    /\ sync_status' \in StatusRows
    /\ UNCHANGED <<now, status_vars, status_frame>>

\* time passes before the command runs
StatusTick ==
    /\ exit_code = -1
    /\ Tick
    /\ UNCHANGED <<client_vars, side_vars>>

\* handle(stale_threshold_seconds=..., fail_on_stale=...) of sync_status
SyncStatusHandle ==
    /\ exit_code = -1
    /\ \E option \in StaleThresholds, fail_on_stale \in BOOLEAN,
          half_second \in {0, 1} :
          \E payload \in {BuildPayload(sync_status, HalfSeconds(now) + half_second,
                                        Max(0, option))} :
              /\ stdout' = Append(stdout, payload)
              /\ exit_code' = ExitCode(fail_on_stale, payload)
              /\ status_options' =
                     [stale_threshold_seconds |-> option,
                      fail_on_stale |-> fail_on_stale,
                      current_time |-> HalfSeconds(now) + half_second]
    /\ UNCHANGED <<now, sync_status, status_frame>>

StatusNext ==
    \/ StatusRowStored
    \/ StatusTick
    \/ SyncStatusHandle

-----------------------------------------------------------------------------
(* The supervisor (scripts/repairshopr-sync-entrypoint.sh): it launches the  *)
(* sync process, polls sync_status --fail-on-stale while the process runs,   *)
(* terminates a stale process and sleeps before the next launch.  One step   *)
(* of the clock is SecondsPerTick seconds; the clock does not pass a         *)
(* deadline of the supervisor before the supervisor has acted on it.         *)

\* the clock of the supervised runs stops here
MaxWatchdogTime == 9

\* the supervisor's settings, in seconds
SYNC_WATCHDOG_POLL_SECONDS == 30
SYNC_WATCHDOG_STARTUP_GRACE_SECONDS == 60
SYNC_WATCHDOG_TERM_GRACE_SECONDS == 30
SYNC_WATCHDOG_STATUS_TIMEOUT_SECONDS == 30
SYNC_FAILURE_SLEEP_SECONDS == 30
SYNC_INTERVAL_SECONDS == 60
SYNC_WATCHDOG_MAX_STALE_COUNT == 3
SYNC_STALE_HEARTBEAT_SECONDS == 30

\* the sleep between two polls, in steps of the clock
PollTicks == CeilDiv(SYNC_WATCHDOG_POLL_SECONDS, SecondsPerTick)

\* seconds from the time t to now
SecondsSince(t) == (now - t) * SecondsPerTick

\* the sync process exists: it boots, or it is inside handle
Alive == watchdog.process \in {"booting", "running"}

\* the start-up grace period of the current launch has not passed
InStartupGrace ==
    SecondsSince(watchdog.launched_at) < SYNC_WATCHDOG_STARTUP_GRACE_SECONDS

\* the exit code of sync_status --stale-threshold-seconds N --fail-on-stale, run now
StatusExitCode ==
    ExitCode(TRUE, BuildPayload(sync_status, HalfSeconds(now),
                                Max(0, SYNC_STALE_HEARTBEAT_SECONDS)))

\* the counter is raised whatever the query said
CountedAlways(count, code) == count + 1

\* the consecutive-stale counter after a query that ended with the exit code
Counted(count, code) == IF code = 2 THEN count + 1 ELSE 0

\* a termination is due at every stale poll
TerminationDueWhenStale(count) == count >= 1

\* the counter has reached the configured maximum
TerminationDue(count) == count >= SYNC_WATCHDOG_MAX_STALE_COUNT

\* staleness is looked at from the launch on
PollSuppressedNever == FALSE

\* the poll is skipped: staleness detection is suppressed during start-up
PollSuppressed == InStartupGrace

\* the forced termination follows the graceful one at once
TermGraceOverAtOnce == TRUE

\* the grace period after the graceful termination signal has passed
TermGraceOver ==
    SecondsSince(watchdog.signalled_at) >= SYNC_WATCHDOG_TERM_GRACE_SECONDS

\* the next launch is not delayed
CooldownNone(terminated) == 0

\* the sleep after a sync process ended: the failure cooldown unless it exited with 0
Cooldown(ended) ==
    IF ended = "exited" THEN SYNC_INTERVAL_SECONDS ELSE SYNC_FAILURE_SLEEP_SECONDS

\* a status query is waited for without limit
QueryAbandonedNever == FALSE

\* the status query has run for its timeout
QueryAbandoned == now >= watchdog.deadline

\* the latest polls, the newest last: as many as the counter can need
Polled(polls, result) ==
    LET all == Append(polls, result)
    IN  IF Len(all) > SYNC_WATCHDOG_MAX_STALE_COUNT THEN Tail(all) ELSE all

NoWatchdog ==
    [pc |-> "ready", process |-> "none", launched_at |-> NoTime,
     deadline |-> NoTime, stale_count |-> 0, signalled_at |-> NoTime,
     polls |-> <<>>, signals |-> <<>>, reported |-> "none", slept |-> 0]

WatchdogInit == watchdog = NoWatchdog

watchdog_frame == <<client_vars, instance_vars, heartbeat_vars, status_vars, upsert_vars,
                    base_model_vars,
                   script_vars>>

\* the sync process ends by a signal: what it persisted stays
KillProcess ==
    IF pc \in {"idle", "exited", "killed"}
    THEN UNCHANGED orch_vars
    ELSE Kill

\* the supervisor starts the sync process in the background and its watchdog, which
\* sleeps until its first poll
SupervisorLaunch ==
    /\ watchdog.pc = "ready"
    /\ cycles < MaxCycles
    /\ watchdog' = [watchdog EXCEPT !.pc = "watching", !.process = "booting",
                                    !.launched_at = now, !.stale_count = 0,
                                    !.deadline = now + PollTicks, !.polls = <<>>,
                                    !.signals = <<>>, !.signalled_at = NoTime]
    /\ UNCHANGED <<orch_vars, watchdog_frame>>

\* the process has booted and enters handle
SyncBoot ==
    /\ watchdog.process = "booting"
    /\ StartCycle
    /\ watchdog' = [watchdog EXCEPT !.process = "running"]
    /\ UNCHANGED watchdog_frame

\* the process goes on with its models and writes a heartbeat
SyncProgress ==
    /\ watchdog.process = "running"
    /\ pc = "models"
    /\ sync_status.last_heartbeat < now
    /\ LET st == SetModelSyncProgress(St, now, ModelNames[model_index])
       IN  cmd' = st.cmd /\ sync_status' = st.row
    /\ UNCHANGED <<pc, model_index, now, full_sync, start_updated_at, exc,
                   cache_cleared, raised_in, parity_violation, steps_done, save_ran>>
    /\ settings_unchanged /\ history_unchanged
    /\ UNCHANGED <<watchdog_vars, watchdog_frame>>

\* the models, the ticket settings and the validation are through, or one of them
\* raised
SyncWorkDone ==
    /\ watchdog.process = "running"
    /\ pc = "models"
    /\ \/ pc' = "commit" /\ UNCHANGED <<exc, raised_in>>
       \/ /\ exc' = "boom"
          /\ raised_in' = "handle_model"
          /\ pc' = "except"
    /\ UNCHANGED <<model_index, now, sync_status, cmd, full_sync, start_updated_at,
                   cache_cleared, parity_violation, steps_done, save_ran>>
    /\ settings_unchanged /\ history_unchanged
    /\ UNCHANGED <<watchdog_vars, watchdog_frame>>

\* the process ends handle: the commit, the save, the final status
SyncCommit ==
    /\ watchdog.process = "running"
    /\ Commit \/ Save \/ Finish \/ Except
    /\ UNCHANGED <<watchdog_vars, watchdog_frame>>

\* the process exits, with 0 unless handle raised
SyncExit ==
    /\ watchdog.process = "running"
    /\ Finally
    /\ watchdog' = [watchdog EXCEPT
                       !.process = IF exc = NoExc THEN "exited" ELSE "crashed"]
    /\ UNCHANGED watchdog_frame

\* the watchdog wakes for its poll: it skips it during the start-up grace period,
\* else it starts the status query
WatchdogPoll ==
    /\ watchdog.pc = "watching"
    /\ Alive
    /\ now >= watchdog.deadline
    /\ IF PollSuppressed
       THEN watchdog' = [watchdog EXCEPT
                            !.deadline = now + PollTicks,
                            !.polls = Polled(watchdog.polls, "skipped")]
       ELSE watchdog' = [watchdog EXCEPT
                            !.pc = "querying",
                            !.deadline = now + CeilDiv(SYNC_WATCHDOG_STATUS_TIMEOUT_SECONDS,
                                                       SecondsPerTick)]
    /\ UNCHANGED <<orch_vars, watchdog_frame>>

\* the status query answers: the counter is raised or reset, and at the maximum
\* the graceful termination signal is sent
WatchdogAnswer ==
    /\ watchdog.pc = "querying"
    /\ Alive
    /\ \E code \in {StatusExitCode} :
         \E count \in {Counted(watchdog.stale_count, code)} :
           IF code = 2 /\ TerminationDue(count)
           THEN watchdog' = [watchdog EXCEPT
                                !.pc = "signalled", !.stale_count = count,
                                !.signalled_at = now, !.deadline = NoTime,
                                !.polls = Polled(watchdog.polls, "stale"),
                                !.signals = <<"TERM">>]
           ELSE watchdog' = [watchdog EXCEPT
                                !.pc = "watching", !.stale_count = count,
                                !.deadline = now + PollTicks,
                                !.polls = Polled(watchdog.polls,
                                                 IF code = 2 THEN "stale" ELSE "fresh")]
    /\ UNCHANGED <<orch_vars, watchdog_frame>>

\* the status query hangs and is given up at its timeout; the counter stays
WatchdogTimeout ==
    /\ watchdog.pc = "querying"
    /\ Alive
    /\ QueryAbandoned
    /\ watchdog' = [watchdog EXCEPT !.pc = "watching", !.deadline = now + PollTicks,
                                    !.polls = Polled(watchdog.polls, "timeout")]
    /\ UNCHANGED <<orch_vars, watchdog_frame>>

\* the process dies of the graceful termination signal
SyncTerminated ==
    /\ watchdog.pc = "signalled"
    /\ Alive
    /\ KillProcess
    /\ watchdog' = [watchdog EXCEPT !.process = "terminated"]
    /\ UNCHANGED watchdog_frame

\* the grace period is over and the process still lives: forced termination
WatchdogForce ==
    /\ watchdog.pc = "signalled"
    /\ Alive
    /\ TermGraceOver
    /\ KillProcess
    /\ watchdog' = [watchdog EXCEPT !.process = "terminated",
                                    !.signals = Append(watchdog.signals, "KILL")]
    /\ UNCHANGED watchdog_frame

\* the process is gone: the supervisor reports how it ended and sleeps
SupervisorReap ==
    /\ watchdog.pc \in {"watching", "querying", "signalled"}
    /\ ~Alive
    /\ \E seconds \in {Cooldown(watchdog.process)} :
          watchdog' = [watchdog EXCEPT
                          !.pc = "sleeping",
                          !.reported = IF watchdog.process = "exited"
                                       THEN "done" ELSE "failed",
                          !.slept = seconds,
                          !.deadline = now + CeilDiv(seconds, SecondsPerTick)]
    /\ UNCHANGED <<orch_vars, watchdog_frame>>

\* the sleep is over
SupervisorWake ==
    /\ watchdog.pc = "sleeping"
    /\ now >= watchdog.deadline
    /\ watchdog' = [watchdog EXCEPT !.pc = "ready", !.deadline = NoTime]
    /\ UNCHANGED <<orch_vars, watchdog_frame>>

\* a deadline of the supervisor is due
DeadlineDue ==
    \/ watchdog.pc = "watching" /\ Alive /\ now >= watchdog.deadline
    \/ watchdog.pc = "querying" /\ QueryAbandoned
    \/ watchdog.pc = "signalled" /\ Alive /\ TermGraceOver
    \/ watchdog.pc \in {"watching", "querying", "signalled"} /\ ~Alive

\* time passes, up to the next deadline
WatchdogTick ==
    /\ now < MaxWatchdogTime
    /\ ~DeadlineDue
    /\ now' = now + 1
    /\ UNCHANGED <<pc, model_index, settings_last_updated_at, saved_last_updated_at,
                   sync_status, cmd, full_sync, start_updated_at, exc, cache_cleared,
                   cycles, start_saved, raised_in, steps_done, save_ran,
                   parity_violation, prev_status, prev_end>>
    /\ UNCHANGED <<watchdog_vars, watchdog_frame>>

WatchdogNext ==
    \/ SupervisorLaunch
    \/ SyncBoot
    \/ SyncProgress
    \/ SyncWorkDone
    \/ SyncCommit
    \/ SyncExit
    \/ WatchdogPoll
    \/ WatchdogAnswer
    \/ WatchdogTimeout
    \/ SyncTerminated
    \/ WatchdogForce
    \/ SupervisorReap
    \/ SupervisorWake
    \/ WatchdogTick

-----------------------------------------------------------------------------
(* create_or_update_django_instance on the tables Ticket (integer primary    *)
(* key, foreign key properties) and TicketProperties (AutoField primary key). *)
(* A raw value is a record that says which Python type it has.               *)

\* calls of create_or_update_django_instance in one behaviour
MaxUpsertCalls == 3

NoneValue == [type |-> "none", int |-> 0, str |-> ""]
IntValue(n) == [type |-> "int", int |-> n, str |-> ""]
StrValue(text) == [type |-> "str", int |-> 0, str |-> text]

\* the strings of the model that str.isdigit() accepts after strip(), with int()
DigitStrings == {"0", "1", " 2 ", "8"}
IntOfString(text) ==
    CASE text = "0" -> 0
      [] text = "1" -> 1
      [] text = " 2 " -> 2
      [] text = "8" -> 8

\* _normalize_identifier(raw_identifier): 0 stands for None
NormalizeIdentifier(raw) ==
    CASE raw.type = "int" -> raw.int
      [] raw.type = "str" /\ raw.str \in DigitStrings -> IntOfString(raw.str)
      [] OTHER -> 0

\* _coerce_integer_value(value, field_name)
CoerceIntegerValue(value) ==
    CASE value.type = "str" /\ value.str \in DigitStrings -> IntValue(IntOfString(value.str))
      [] value.type = "str" -> NoneValue
      [] OTHER -> value

\* Ticket.properties is None
NoProperties == [is_none |-> TRUE, id |-> NoneValue, day |-> "None"]

NoTables == [ticket |-> <<>>, ticket_properties |-> <<>>]

\* the row of the table with this primary key is written: update_or_create(id=...)
UpdateOrCreate(rows, id, field_data) ==
    [k \in DOMAIN rows \cup {id} |-> IF k = id THEN field_data ELSE rows[k]]

\* create_or_update_django_instance(TicketProperties, api_instance): the primary
\* key is an AutoField, so without an identifier objects.create() adds a row;
\* gives the tables and the primary key of the row written
UpsertProperties(tbl, api_instance) ==
    LET field_data == [day |-> api_instance.day]
        lookup_identifier == NormalizeIdentifier(api_instance.id)
        pk == IF lookup_identifier = 0
              THEN Len(tbl.ticket_properties) + 1
              ELSE lookup_identifier
    IN  [tables |-> [tbl EXCEPT !.ticket_properties =
                        IF pk \in DOMAIN @
                        THEN UpdateOrCreate(@, pk, field_data)
                        ELSE @ \o [k \in 1..(pk - Len(@)) |->
                                      IF k = pk - Len(@) THEN field_data
                                      ELSE [day |-> "<deleted>"]]],
         pk |-> pk]

\* create_or_update_django_instance(Ticket, api_instance): the fields are read
\* (the foreign key by a call for the related instance), then a record without a
\* valid id is skipped, else the row with the id is written; db_error: the write
\* raises DataError or OperationalError
CreateOrUpdateDjangoInstance(tbl, api_instance, db_error) ==
    LET related == IF api_instance.properties.is_none
                   THEN [tables |-> tbl, pk |-> 0]
                   ELSE UpsertProperties(tbl, api_instance.properties)
        field_data == [subject |-> api_instance.subject,
                       number |-> CoerceIntegerValue(api_instance.number),
                       properties |-> related.pk]
        lookup_identifier == NormalizeIdentifier(api_instance.id)
    IN  IF lookup_identifier = 0
        THEN [tables |-> related.tables, returned |-> "None"]
        ELSE IF db_error
        THEN [tables |-> related.tables, returned |-> "raised"]
        ELSE [tables |-> [related.tables EXCEPT
                             !.ticket = UpdateOrCreate(@, lookup_identifier, field_data)],
              returned |-> "obj"]

\* the Ticket records of the model, as BaseModel.from_dict builds them
TicketRecords ==
    { [id |-> id, subject |-> subject, number |-> number, properties |-> properties] :
        id \in {IntValue(0), IntValue(1), StrValue("1"), StrValue(" 2 ")},
        subject \in {"First", "Updated"},
        number \in {IntValue(7), StrValue("8"), StrValue("")},
        properties \in {NoProperties, [is_none |-> FALSE, id |-> NoneValue, day |-> "mon"]} }

NoUpsertCall ==
    [api_instance |-> [id |-> NoneValue, subject |-> "None", number |-> NoneValue,
                       properties |-> NoProperties],
     db_error |-> FALSE, returned |-> "None", written |-> 0]

UpsertInit ==
    /\ tables = NoTables
    /\ upsert_call = NoUpsertCall
    /\ upsert_calls = 0

\* one call of create_or_update_django_instance(Ticket, api_instance)
CreateOrUpdateCall ==
    /\ upsert_calls < MaxUpsertCalls
    /\ \E api_instance \in TicketRecords, db_error \in BOOLEAN :
         \E r \in {CreateOrUpdateDjangoInstance(tables, api_instance, db_error)} :
            /\ tables' = r.tables
            /\ upsert_call' = [api_instance |-> api_instance, db_error |-> db_error,
                               returned |-> r.returned,
                               written |-> IF r.returned = "obj"
                                           THEN upsert_call.written + 1
                                           ELSE upsert_call.written]
    /\ upsert_calls' = upsert_calls + 1
    /\ UNCHANGED <<orch_vars, client_vars, instance_vars, heartbeat_vars, status_vars,
                   watchdog_vars, base_model_vars,
                   script_vars>>

UpsertNext == CreateOrUpdateCall

(***************************************************************************)
(* BaseModel (base/model.py).  A key is the sequence of its characters.    *)
(***************************************************************************)

\* characters a key is written in
MaxKeyLen == 3

\* the characters clean_key treats differently, two letters and a digit
KeyChars == {" ", "/", "-", "_", "#", "P", "o"}

RECURSIVE KeysOfLength(_)
KeysOfLength(n) ==
    IF n = 0 THEN {<<>>}
    ELSE {Append(key, ch) : key \in KeysOfLength(n - 1), ch \in KeyChars}

\* the keys of the tests of clean_key
TagNumberKey == <<"T", "a", "g", " ", "#">>
DropOffKey ==
    <<"d", "r", "o", "p", " ", "o", "f", "f", "/",
      "l", "o", "c", "a", "t", "i", "o", "n">>
DashKey == <<"-">>
PoKey == <<"p", "o", "_">>

Keys ==
    UNION {KeysOfLength(n) : n \in 0..MaxKeyLen}
    \cup {TagNumberKey, DropOffKey, DashKey, PoKey}

\* str.lower() on one character
Lower(ch) ==
    CASE ch = "P" -> "p"
      [] ch = "T" -> "t"
      [] OTHER -> ch

\* re.sub(r"[ /]", "_", key)
SpacesAndSlashesReplaced(key) ==
    [i \in DOMAIN key |-> IF key[i] \in {" ", "/"} THEN "_" ELSE key[i]]

\* re.sub(r"^-", "transport", cleaned_key)
LeadingDashReplaced(key) ==
    IF key # <<>> /\ key[1] = "-"
    THEN <<"t", "r", "a", "n", "s", "p", "o", "r", "t">> \o Tail(key)
    ELSE key

\* re.sub(r"_$", "_2", cleaned_key); $ is the end of the string, or the place
\* before a line break that ends the string
TrailingUnderscoreReplaced(key) ==
    IF key # <<>> /\ key[Len(key)] = "_"
    THEN Append(key, "2")
    ELSE IF Len(key) >= 2 /\ key[Len(key)] = "\n" /\ key[Len(key) - 1] = "_"
    THEN SubSeq(key, 1, Len(key) - 1) \o <<"2", "\n">>
    ELSE key

RECURSIVE HashesReplaced(_)
\* cleaned_key.replace("#", "num")
HashesReplaced(key) ==
    IF key = <<>> THEN <<>>
    ELSE (IF Head(key) = "#" THEN <<"n", "u", "m">> ELSE <<Head(key)>>)
         \o HashesReplaced(Tail(key))

\* cleaned_key.lower()
Lowered(key) == [i \in DOMAIN key |-> Lower(key[i])]

\* clean_key with the trailing underscore looked for before spaces and slashes
\* are replaced
CleanKeyTrailingFirst(key) ==
    Lowered(HashesReplaced(LeadingDashReplaced(
        SpacesAndSlashesReplaced(TrailingUnderscoreReplaced(key)))))

\* BaseModel.clean_key
CleanKey(key) ==
    Lowered(HashesReplaced(TrailingUnderscoreReplaced(LeadingDashReplaced(
        SpacesAndSlashesReplaced(key)))))

NoCleanKeyCall == [done |-> FALSE, key |-> <<>>, cleaned |-> <<>>]

\* a caller calls clean_key(key), once in a behaviour
CleanKeyCall ==
    /\ ~clean_key_call.done
    /\ \E key \in Keys :
          clean_key_call' = [done |-> TRUE, key |-> key, cleaned |-> CleanKey(key)]
    /\ UNCHANGED <<orch_vars, client_vars, instance_vars, heartbeat_vars, status_vars,
                   watchdog_vars, upsert_vars, from_dict_call,
                   script_vars>>

CleanKeyNext == CleanKeyCall

\* the largest number of keys in a payload
MaxDataLen == 2

\* False and True of a payload
BoolValue(b) == [type |-> "bool", int |-> IF b THEN 1 ELSE 0, str |-> ""]
\* a datetime object, named by its ISO form
DatetimeValue(text) == [type |-> "datetime", int |-> 0, str |-> text]

\* the names of the declared fields: id, number and subject as in Ticket,
\* hidden as in Comment, created_at typed datetime | None as in User
IdName == <<"i", "d">>
NumberName == <<"n", "u", "m", "b", "e", "r">>
SubjectName == <<"s", "u", "b", "j", "e", "c", "t">>
HiddenName == <<"h", "i", "d", "d", "e", "n">>
CreatedAtName == <<"c", "r", "e", "a", "t", "e", "d", "_", "a", "t">>
FieldNames == {IdName, NumberName, SubjectName, HiddenName, CreatedAtName}

\* the keys of a payload: the field names, a key that is a field name only once
\* it is cleaned ("created at"), and a key no field is declared for
RawKeys ==
    FieldNames
    \cup {<<"c", "r", "e", "a", "t", "e", "d", " ", "a", "t">>,
          <<"o", "t", "h", "e", "r">>}

\* the values of a payload
RawValues ==
    {NoneValue, IntValue(0), IntValue(5), BoolValue(FALSE), BoolValue(TRUE),
     StrValue(""), StrValue("not-a-datetime"), StrValue("2026-01-10T10:20:30Z")}

\* the default a dataclass field is declared with
FieldDefault(name) == NoneValue

\* _field_accepts_datetime(current_field.type)
FieldAcceptsDatetime(name) == name = CreatedAtName

\* parse_datetime(value): the string normalised (a final Z is +00:00) and read
\* by datetime.fromisoformat; None when that raises ValueError
ParseDatetime(text) ==
    IF text = "2026-01-10T10:20:30Z"
    THEN DatetimeValue("2026-01-10T10:20:30+00:00")
    ELSE NoneValue

\* data.get(key, default)
DataGet(data, key, default) ==
    IF \E i \in DOMAIN data : data[i].key = key
    THEN data[CHOOSE i \in DOMAIN data : data[i].key = key].value
    ELSE default

RECURSIVE CleanedDataKeeping(_, _, _)
\* {cls.clean_key(key): value for key, value in data.items() if kept(value)}:
\* a later key replaces an earlier one with the same cleaned key
CleanedDataKeeping(data, kept, cleaned_data) ==
    IF data = <<>> THEN cleaned_data
    ELSE CleanedDataKeeping(
             Tail(data), kept,
             IF Head(data).value \in kept
             THEN (CleanKey(Head(data).key) :> Head(data).value) @@ cleaned_data
             ELSE cleaned_data)

\* the value from_dict sets on a field for a value of cleaned_data
Hydrated(name, value) ==
    IF value.type = "str" /\ FieldAcceptsDatetime(name)
       /\ ParseDatetime(value.str) # NoneValue
    THEN ParseDatetime(value.str)
    ELSE value

\* from_dict over the values of the payload that are in kept
FromDictKeeping(data, kept) ==
    LET cleaned_data == CleanedDataKeeping(data, kept, <<>>)
    IN  [name \in FieldNames |->
            IF name \in DOMAIN cleaned_data
            THEN Hydrated(name, cleaned_data[name])
            ELSE IF name = IdName THEN DataGet(data, IdName, IntValue(0))
            ELSE FieldDefault(name)]

\* from_dict that keeps only the values that are true in a condition
FromDictTruthy(data) ==
    FromDictKeeping(data, {value \in RawValues :
                              value.type # "none" /\ (value.int # 0 \/ value.str # "")})

\* BaseModel.from_dict(data): the fields of the instance it returns
FromDict(data) == FromDictKeeping(data, RawValues \ {NoneValue})

NoFromDictCall ==
    [done |-> FALSE, data |-> <<>>, instance |-> [name \in FieldNames |-> NoneValue]]

\* the service's payload gets one more key
PayloadKey ==
    /\ ~from_dict_call.done
    /\ Len(from_dict_call.data) < MaxDataLen
    /\ \E item \in [key : RawKeys, value : RawValues] :
          /\ \A i \in DOMAIN from_dict_call.data :
                from_dict_call.data[i].key # item.key
          /\ from_dict_call' =
                [from_dict_call EXCEPT !.data = Append(from_dict_call.data, item)]
    /\ UNCHANGED <<orch_vars, client_vars, instance_vars, heartbeat_vars, status_vars,
                   watchdog_vars, upsert_vars, clean_key_call,
                   script_vars>>

\* a caller calls from_dict(data) with the payload, once in a behaviour
FromDictCall ==
    /\ ~from_dict_call.done
    /\ from_dict_call' = [done |-> TRUE, data |-> from_dict_call.data,
                          instance |-> FromDict(from_dict_call.data)]
    /\ UNCHANGED <<orch_vars, client_vars, instance_vars, heartbeat_vars, status_vars,
                   watchdog_vars, upsert_vars, clean_key_call,
                   script_vars>>

FromDictNext == PayloadKey \/ FromDictCall

BaseModelInit ==
    /\ clean_key_call = NoCleanKeyCall
    /\ from_dict_call = NoFromDictCall

(***************************************************************************)
(* The console scripts of run_django.py                                    *)
(***************************************************************************)

\* calls of an entry point in one behaviour
MaxEntryCalls == 4

\* the return codes of a manage.py process
ReturnCodes == {0, 1, 2, 3}

\* the entry points that run the migrations first, and their last command
EntryPoints == {"runserver", "import_from_repairshopr"}

\* the commands an entry point hands to _run_manage, in the order of its body
ManageCommands(entry_point) == <<"makemigrations", "migrate", entry_point>>

\* an entry point that goes on to its next command whatever the exit code was
ReturnsAfterLastOnly(started, returncode) == started = 3

\* if exit_code != 0: return exit_code, after the first and the second command;
\* the third command's code is returned as it is
Returns(started, returncode) == started = 3 \/ returncode # 0

NoRunDjango ==
    [entry_point |-> "none", pc |-> "none", calls |-> <<>>, returncodes |-> <<>>,
     exit_code |-> 0, entry_calls |-> 0]

\* the console script starts: runserver() or import_from_repairshopr()
EntryPointCall ==
    /\ run_django.pc \in {"none", "returned"}
    /\ run_django.entry_calls < MaxEntryCalls
    /\ \E entry_point \in EntryPoints :
          run_django' = [entry_point |-> entry_point, pc |-> "running",
                         calls |-> <<>>, returncodes |-> <<>>, exit_code |-> 0,
                         entry_calls |-> run_django.entry_calls + 1]
    /\ UNCHANGED <<reconcile, handle_model_call, validate_call, parity_call>>

\* _run_manage(args): subprocess.run of the next command to its end, and what
\* the entry point does with completed.returncode
RunManage ==
    /\ run_django.pc = "running"
    /\ \E returncode \in ReturnCodes :
          LET started == Len(run_django.calls) + 1
          IN  run_django' =
                [run_django EXCEPT
                   !.calls = Append(@, ManageCommands(run_django.entry_point)[started]),
                   !.returncodes = Append(@, returncode),
                   !.pc = IF Returns(started, returncode) THEN "returned" ELSE @,
                   !.exit_code = IF Returns(started, returncode) THEN returncode ELSE @]
    /\ UNCHANGED <<reconcile, handle_model_call, validate_call, parity_call>>

RunDjangoNext ==
    \/ EntryPointCall /\ UNCHANGED <<orch_vars, client_vars, instance_vars,
                                     heartbeat_vars, status_vars, watchdog_vars,
                                     upsert_vars, base_model_vars>>
    \/ RunManage /\ UNCHANGED <<orch_vars, client_vars, instance_vars,
                                heartbeat_vars, status_vars, watchdog_vars,
                                upsert_vars, base_model_vars>>

(***************************************************************************)
(* reconcile_invoice_line_items: the forensic scan and the invoice-scoped   *)
(* repairs (reconcile_invoice_line_items.py)                                *)
(***************************************************************************)

\* line-item ids the service's flat feed lists, 1 .. MaxLineItemId
MaxLineItemId == 3
\* invoice ids, 1 .. MaxInvoiceId; 0 stands for an invoice_id that is no integer
MaxInvoiceId == 2
\* the largest --max-repair-invoices given (0 is no cap)
MaxRepairCap == 1
\* rows on one page of the flat feed
FeedPerPage == 1

LineItemIds == 1 .. MaxLineItemId
InvoiceIds == 1 .. MaxInvoiceId

RECURSIVE SortedIds(_)
\* sorted(ids)
SortedIds(ids) ==
    IF ids = {} THEN <<>>
    ELSE LET least == CHOOSE i \in ids : \A j \in ids : i <= j
         IN  <<least>> \o SortedIds(ids \ {least})

\* the page of the flat feed that lists line item i
FeedPage(i) == CeilDiv(i, FeedPerPage)

\* _scan: final_page = min(page_end if page_end > 0 else total_pages, total_pages)
FinalPage(page_end) ==
    LET total_pages == CeilDiv(MaxLineItemId, FeedPerPage)
    IN  Min(IF page_end > 0 THEN page_end ELSE total_pages, total_pages)

\* _scan: the ids on the pages page_start .. final_page
ScannedIds(page_start, page_end) ==
    {i \in LineItemIds : page_start <= FeedPage(i) /\ FeedPage(i) <= FinalPage(page_end)}

\* _scan: missing_line_item_ids, the scanned ids without a row in the store
MissingLineItemIds(page_start, page_end, line_items) ==
    {i \in ScannedIds(page_start, page_end) : i \notin line_items}

\* _scan: missing_invoice_ids, the integer invoice_id of every missing line item
MissingInvoiceIds(api_invoice, missing_line_item_ids) ==
    {api_invoice[i] : i \in {j \in missing_line_item_ids : api_invoice[j] # 0}}

\* (changed) the cap is not applied
RepairInvoiceIdsUncapped(existing_missing_invoices, max_repair_invoices) ==
    SortedIds(existing_missing_invoices)

\* handle: repair_invoice_ids = sorted(existing_missing_invoices), cut to
\* max_repair_invoices when that is > 0
RepairInvoiceIds(existing_missing_invoices, max_repair_invoices) ==
    LET sorted == SortedIds(existing_missing_invoices)
    IN  IF max_repair_invoices > 0
          THEN SubSeq(sorted, 1, Min(max_repair_invoices, Len(sorted)))
          ELSE sorted

\* handle: remaining_missing, the scanned-missing ids the store still lacks
RemainingMissing(missing_line_item_ids, line_items) ==
    Cardinality(missing_line_item_ids \ (missing_line_item_ids \cap line_items))

NoReconcile ==
    [pc |-> "none", apply |-> FALSE, max_repair_invoices |-> 0, page_start |-> 1,
     page_end |-> 0, api_invoice |-> [i \in LineItemIds |-> 0], invoices |-> {},
     line_items |-> {}, line_items_at_start |-> {}, missing_line_item_ids |-> {},
     missing_invoice_ids |-> {}, repair_invoice_ids |-> <<>>, repaired |-> <<>>,
     rows_upserted |-> 0, repair_summary |-> FALSE, remaining_missing |-> 0]

\* Command.handle up to the repair loop: the options are read, the feed scanned,
\* forensic_summary emitted; without --apply it returns, with --apply and nothing
\* to repair it emits repair_summary and returns
ReconcileHandle ==
    /\ reconcile.pc = "none"
    /\ \E apply \in BOOLEAN, max_repair_invoices \in 0 .. MaxRepairCap,
          page_start \in {1, 2}, page_end \in {0, 2},
          api_invoice \in [LineItemIds -> 0 .. MaxInvoiceId],
          invoices \in SUBSET InvoiceIds, line_items \in SUBSET LineItemIds :
          LET missing_line_item_ids ==
                  MissingLineItemIds(page_start, page_end, line_items)
              missing_invoice_ids ==
                  MissingInvoiceIds(api_invoice, missing_line_item_ids)
              existing_missing_invoices == missing_invoice_ids \cap invoices
              repair_invoice_ids ==
                  IF apply
                    THEN RepairInvoiceIds(existing_missing_invoices, max_repair_invoices)
                    ELSE <<>>
          IN  reconcile' =
                [pc |-> IF apply /\ repair_invoice_ids # <<>> THEN "repairing"
                        ELSE "returned",
                 apply |-> apply, max_repair_invoices |-> max_repair_invoices,
                 page_start |-> page_start, page_end |-> page_end,
                 api_invoice |-> api_invoice, invoices |-> invoices,
                 line_items |-> line_items, line_items_at_start |-> line_items,
                 missing_line_item_ids |-> missing_line_item_ids,
                 missing_invoice_ids |-> missing_invoice_ids,
                 repair_invoice_ids |-> repair_invoice_ids, repaired |-> <<>>,
                 rows_upserted |-> 0, repair_summary |-> apply,
                 remaining_missing |->
                    IF apply THEN RemainingMissing(missing_line_item_ids, line_items)
                    ELSE 0]
    /\ UNCHANGED <<run_django, handle_model_call, validate_call, parity_call>>

\* one turn of the repair loop, _sync_invoice_line_items_for_invoice: the line
\* items of the invoice are listed and upserted (create_or_update_django_instance
\* may skip a row), or the listing raises; after the last turn repair_summary is
\* emitted
SyncInvoiceLineItemsForInvoice ==
    /\ reconcile.pc = "repairing"
    /\ LET invoice_id == reconcile.repair_invoice_ids[Len(reconcile.repaired) + 1]
           listed == {i \in LineItemIds : reconcile.api_invoice[i] = invoice_id}
           last == Len(reconcile.repaired) + 1 = Len(reconcile.repair_invoice_ids)
       IN  \/ \E stored \in SUBSET listed :
                reconcile' =
                  [reconcile EXCEPT
                     !.line_items = @ \cup stored,
                     !.repaired = Append(@, invoice_id),
                     !.rows_upserted = @ + Cardinality(stored),
                     !.pc = IF last THEN "returned" ELSE @,
                     !.remaining_missing =
                        RemainingMissing(reconcile.missing_line_item_ids,
                                         reconcile.line_items \cup stored)]
           \/ reconcile' = [reconcile EXCEPT !.pc = "raised", !.repair_summary = FALSE]
    /\ UNCHANGED <<run_django, handle_model_call, validate_call, parity_call>>

ReconcileNext ==
    \/ ReconcileHandle /\ UNCHANGED <<orch_vars, client_vars, instance_vars,
                                      heartbeat_vars, status_vars, watchdog_vars,
                                      upsert_vars, base_model_vars>>
    \/ SyncInvoiceLineItemsForInvoice
         /\ UNCHANGED <<orch_vars, client_vars, instance_vars, heartbeat_vars,
                        status_vars, watchdog_vars, upsert_vars, base_model_vars>>

(***************************************************************************)
(* handle_model: what it passes to get_model                               *)
(***************************************************************************)

\* model_mapping: the num_last_pages of each model in ModelNames (0 is None)
ModelNumLastPages == <<10, 1, 0, 2, 2, 0, 0>>

\* UTC offsets of the current time zone make_aware may apply, in units of the
\* time axis
ZoneOffsets == {-1, 0, 1}

\* the values of settings.django.last_updated_at around the baseline
LastUpdatedAtValues ==
    {NoDatetime}
    \cup {Datetime(naive, t) :
            naive \in BOOLEAN,
            t \in {BASELINE_UPDATED_AT - 1, BASELINE_UPDATED_AT, BASELINE_UPDATED_AT + 1}}

\* if last_updated_at and last_updated_at.tzinfo is None:
\*     last_updated_at = make_aware(last_updated_at)
MakeAware(last_updated_at, zone) ==
    IF ~last_updated_at.is_none /\ last_updated_at.naive
    THEN Datetime(FALSE, last_updated_at.t - zone)
    ELSE last_updated_at

\* handle_model that keeps num_last_pages whenever last_updated_at is set
NumLastPagesForAnyMark(last_updated_at, num_last_pages) ==
    IF last_updated_at.is_none THEN 0 ELSE num_last_pages

\* if not last_updated_at or last_updated_at < BASELINE_UPDATED_AT:
\*     num_last_pages = None
NumLastPagesPassed(last_updated_at, num_last_pages) ==
    IF last_updated_at.is_none \/ last_updated_at.t < BASELINE_UPDATED_AT
    THEN 0
    ELSE num_last_pages

NoHandleModelCall ==
    [done |-> FALSE, model |-> 1, last_updated_at |-> NoDatetime, zone |-> 0,
     updated_at |-> NoDatetime, num_last_pages |-> 0]

\* handle calls handle_model for a model of model_mapping; recorded is what
\* handle_model hands to client.get_model
HandleModelCall ==
    /\ ~handle_model_call.done
    /\ \E model \in DOMAIN ModelNames, last_updated_at \in LastUpdatedAtValues,
          zone \in ZoneOffsets :
          handle_model_call' =
            [done |-> TRUE, model |-> model, last_updated_at |-> last_updated_at,
             zone |-> zone,
             updated_at |-> MakeAware(last_updated_at, zone),
             num_last_pages |->
                NumLastPagesPassed(MakeAware(last_updated_at, zone),
                                   ModelNumLastPages[model])]
    /\ UNCHANGED <<orch_vars, client_vars, instance_vars, heartbeat_vars, status_vars,
                   watchdog_vars, upsert_vars, base_model_vars, run_django, reconcile,
                   validate_call, parity_call>>

HandleModelNext == HandleModelCall

-----------------------------------------------------------------------------
(* validate_sync_completeness and the exceptions of the calls it makes       *)
(* (import_from_repairshopr.py)                                              *)

\* no exception
NoRaise == "<none>"
\* classes of the exceptions the calls may raise, with the class each derives from
\* (requests.HTTPError from requests.RequestException, json.JSONDecodeError from
\* ValueError, django.db.OperationalError from django.db.DatabaseError)
ExceptionClasses ==
    {"RequestException", "HTTPError", "PermissionError", "ValueError",
     "JSONDecodeError", "TypeError", "DatabaseError", "OperationalError",
     "RuntimeError", "KeyError"}
BaseClass(cls) ==
    CASE cls = "HTTPError" -> "RequestException"
      [] cls = "JSONDecodeError" -> "ValueError"
      [] cls = "OperationalError" -> "DatabaseError"
      [] OTHER -> "Exception"

\* isinstance(exc, handler): the class or one it derives from
IsInstance(cls, handler) == cls = handler \/ BaseClass(cls) = handler

\* the except clause around _fetch_line_item_total_entries
TotalsHandlers == {"RequestException", "PermissionError", "ValueError", "TypeError"}
\* the except clause around _evaluate_invoice_line_item_sample_parity
SampleHandlers ==
    {"RequestException", "PermissionError", "ValueError", "TypeError", "DatabaseError"}

\* (changed) the clause catches every Exception
CaughtAlways(raised, handlers) == raised # NoRaise

\* the except clause with these handlers catches what the call raised
Caught(raised, handlers) ==
    raised # NoRaise /\ \E handler \in handlers : IsInstance(raised, handler)

\* validate_sync_completeness(full_sync=full) when the two fetches of the expected
\* totals and the sample check raise inv, est and sample (NoRaise for a call that
\* returns): the exception that leaves the method, the checks that were skipped
\* with a warning, and the calls that were made
ValidateRaising(full, inv, est, sample) ==
    LET skipped_inv == IF Caught(inv, TotalsHandlers) THEN {"invoice_line_items"} ELSE {}
        skipped_est == IF Caught(est, TotalsHandlers) THEN {"estimate_line_items"} ELSE {}
        skipped_sample == IF Caught(sample, SampleHandlers) THEN {"sample"} ELSE {}
    IN  IF inv # NoRaise /\ ~Caught(inv, TotalsHandlers)
          THEN [raised |-> inv, skipped |-> {}, called |-> {"invoice_line_items"}]
        ELSE IF est # NoRaise /\ ~Caught(est, TotalsHandlers)
          THEN [raised |-> est, skipped |-> skipped_inv,
                called |-> {"invoice_line_items", "estimate_line_items"}]
        ELSE IF sample # NoRaise /\ ~Caught(sample, SampleHandlers)
          THEN [raised |-> sample, skipped |-> skipped_inv \cup skipped_est,
                called |-> {"invoice_line_items", "estimate_line_items", "sample"}]
        ELSE [raised |-> NoRaise,
              skipped |-> skipped_inv \cup skipped_est \cup skipped_sample,
              called |-> {"invoice_line_items", "estimate_line_items", "sample"}]

NoValidateCall ==
    [done |-> FALSE, full |-> FALSE, inv |-> NoRaise, est |-> NoRaise,
     sample |-> NoRaise, raised |-> NoRaise, skipped |-> {}, called |-> {}]

\* handle calls validate_sync_completeness(full_sync=full)
ValidateCall ==
    /\ ~validate_call.done
    /\ \E full \in BOOLEAN,
          inv \in ExceptionClasses \cup {NoRaise},
          est \in ExceptionClasses \cup {NoRaise},
          sample \in ExceptionClasses \cup {NoRaise} :
          \E r \in {ValidateRaising(full, inv, est, sample)} :
             validate_call' = [done |-> TRUE, full |-> full, inv |-> inv, est |-> est,
                               sample |-> sample, raised |-> r.raised,
                               skipped |-> r.skipped, called |-> r.called]
    /\ UNCHANGED <<orch_vars, client_vars, instance_vars, heartbeat_vars, status_vars,
                   watchdog_vars, upsert_vars, base_model_vars, run_django, reconcile,
                   handle_model_call, parity_call>>

ValidateNext == ValidateCall

\* expected totals the service reports, around the count at which 0.5% of it
\* passes the absolute tolerance
ExpectedCounts ==
    {0, 1, 100, 9999, 10000, 10001, 10199, 10200, 10201, 10399, 10400, 20000, 30000}
\* differences between the rows in the store and the expected total
DeltaChoices ==
    {0} \cup {d : d \in {49, 50, 51, 52, 99, 100, 101, 149, 150, 151}}
        \cup {0 - d : d \in {49, 50, 51, 52, 99, 100, 101, 149, 150, 151}}

NoParityCall ==
    [done |-> FALSE, expected |-> 0, actual |-> 0, allowed_delta |-> 0,
     exceeds |-> FALSE]

\* one turn of the parity loop with counts: delta, allowed_delta and
\* abs(delta) > allowed_delta
ParityCall ==
    /\ ~parity_call.done
    /\ \E expected \in ExpectedCounts, delta \in DeltaChoices :
          /\ expected + delta >= 0
          /\ parity_call' =
                [done |-> TRUE, expected |-> expected, actual |-> expected + delta,
                 allowed_delta |-> LineItemAllowedDelta(expected),
                 exceeds |-> AggregateExceeds([kind |-> "counts", expected |-> expected,
                                               actual |-> expected + delta])]
    /\ UNCHANGED <<orch_vars, client_vars, instance_vars, heartbeat_vars, status_vars,
                   watchdog_vars, upsert_vars, base_model_vars, run_django, reconcile,
                   handle_model_call, validate_call>>

ParityNext == ParityCall

ScriptInit ==
    /\ run_django = NoRunDjango
    /\ reconcile = NoReconcile
    /\ handle_model_call = NoHandleModelCall
    /\ validate_call = NoValidateCall
    /\ parity_call = NoParityCall


StatusInit ==
    /\ stdout = <<>>
    /\ status_options = NoOptions
    /\ exit_code = -1

SideInit ==
    InstanceInit /\ HeartbeatInit /\ StatusInit /\ WatchdogInit /\ UpsertInit
    /\ BaseModelInit /\ ScriptInit

RequestNext ==
    \/ Idle /\ UNCHANGED <<orch_vars, cache_vars, side_vars>>
    \/ CallRequest /\ UNCHANGED <<orch_vars, cache_vars, side_vars>>
    \/ Attempt /\ UNCHANGED <<orch_vars, cache_vars, side_vars>>
    \/ RetrySleep /\ UNCHANGED <<orch_vars, cache_vars, side_vars>>

\* the sync process has not started
OrchIdle == OrchInit /\ saved_last_updated_at = NoTime

RequestSpecInit == OrchIdle /\ RequestInit /\ CacheInit /\ SideInit

RequestSpec == RequestSpecInit /\ [][RequestNext]_vars

\* a call of request that has started runs on: tenacity's loop neither stops between
\* its sleep and the next attempt nor inside an attempt (every HTTP exchange has a
\* timeout, REQUEST_TIMEOUT)
FairRequestSpec ==
    /\ RequestSpec
    /\ WF_vars(Attempt /\ UNCHANGED <<orch_vars, cache_vars, side_vars>>)
    /\ WF_vars(RetrySleep /\ UNCHANGED <<orch_vars, cache_vars, side_vars>>)

CacheSpecInit == OrchIdle /\ RequestInit /\ CacheInit /\ SideInit

PrefetchSpecInit == OrchIdle /\ RequestInit /\ CacheInit /\ SideInit
PrefetchSpec == PrefetchSpecInit /\ [][PrefetchNext]_vars

PagingSpecInit == OrchIdle /\ RequestInit /\ CacheInit /\ SideInit
PagingSpec == PagingSpecInit /\ [][PagingNext]_vars

InstanceSpecInit == OrchIdle /\ RequestInit /\ CacheInit /\ SideInit
InstanceSpec == InstanceSpecInit /\ [][InstanceNext]_vars

PayloadSpecInit == OrchIdle /\ RequestInit /\ CacheInit /\ SideInit
PayloadSpec == PayloadSpecInit /\ [][PayloadNext]_vars

HeartbeatSpecInit == OrchIdle /\ RequestInit /\ CacheInit /\ SideInit
HeartbeatSpec == HeartbeatSpecInit /\ [][HeartbeatNext]_vars

StatusSpecInit == OrchIdle /\ RequestInit /\ CacheInit /\ SideInit
StatusSpec == StatusSpecInit /\ [][StatusNext]_vars

WatchdogSpecInit == OrchIdle /\ RequestInit /\ CacheInit /\ SideInit
WatchdogSpec == WatchdogSpecInit /\ [][WatchdogNext]_vars

UpsertSpecInit == OrchIdle /\ RequestInit /\ CacheInit /\ SideInit
UpsertSpec == UpsertSpecInit /\ [][UpsertNext]_vars

CleanKeySpecInit == OrchIdle /\ RequestInit /\ CacheInit /\ SideInit
CleanKeySpec == CleanKeySpecInit /\ [][CleanKeyNext]_vars

FromDictSpecInit == OrchIdle /\ RequestInit /\ CacheInit /\ SideInit
FromDictSpec == FromDictSpecInit /\ [][FromDictNext]_vars

RunDjangoSpecInit == OrchIdle /\ RequestInit /\ CacheInit /\ SideInit
RunDjangoSpec == RunDjangoSpecInit /\ [][RunDjangoNext]_vars

HandleModelSpecInit == OrchIdle /\ RequestInit /\ CacheInit /\ SideInit
HandleModelSpec == HandleModelSpecInit /\ [][HandleModelNext]_vars

CacheSpec == CacheSpecInit /\ [][CacheNext]_vars

\* the steps of the sync process; the Client objects of the other
\* specifications are not touched by them
OrchNext ==
    \/ Tick /\ UNCHANGED <<client_vars, side_vars>>
    \/ StartCycle /\ UNCHANGED <<client_vars, side_vars>>
    \/ BeginModel /\ UNCHANGED <<client_vars, side_vars>>
    \/ EndModel /\ UNCHANGED <<client_vars, side_vars>>
    \/ BeginTicketSettings /\ UNCHANGED <<client_vars, side_vars>>
    \/ EndTicketSettings /\ UNCHANGED <<client_vars, side_vars>>
    \/ BeginValidate /\ UNCHANGED <<client_vars, side_vars>>
    \/ EndValidate /\ UNCHANGED <<client_vars, side_vars>>
    \/ Commit /\ UNCHANGED <<client_vars, side_vars>>
    \/ Save /\ UNCHANGED <<client_vars, side_vars>>
    \/ Finish /\ UNCHANGED <<client_vars, side_vars>>
    \/ Except /\ UNCHANGED <<client_vars, side_vars>>
    \/ Finally /\ UNCHANGED <<client_vars, side_vars>>
    \/ Kill /\ UNCHANGED <<client_vars, side_vars>>

SpecInit == OrchInit /\ RequestInit /\ CacheInit /\ SideInit

Spec == SpecInit /\ [][OrchNext]_vars

-----------------------------------------------------------------------------
(* Claims about the orchestrator, checked under Spec *)

\* every step of the try block before the commit has completed without raising
AllStepsDone == steps_done = NumModels + 2

\* C1 as stated: last_updated_at is changed and saved only after every model, the
\* ticket settings and validate_sync_completeness completed without raising; in every
\* cycle whose final status is failed, and in every cycle terminated mid-way, the
\* persisted last_updated_at equals its value at cycle start.
C1_AsStated ==
    /\ saved_last_updated_at # start_saved => AllStepsDone
    /\ (pc \in {"finally", "exited"} /\ sync_status.status = "failed")
          => saved_last_updated_at = start_saved
    /\ pc = "killed" => saved_last_updated_at = start_saved

\* C1 amended: last_updated_at is changed and saved only by settings.save() after
\* every model, the ticket settings and validate_sync_completeness completed without
\* raising; in every cycle in which one of these steps raised, and in every cycle
\* terminated before settings.save() has run, the persisted last_updated_at equals
\* its value at cycle start.
C1_HighWaterMarkOnlyAfterValidation ==
    /\ saved_last_updated_at # start_saved => AllStepsDone /\ save_ran
    /\ save_ran => AllStepsDone
    /\ raised_in \in {"handle_model", "sync_ticket_settings",
                       "validate_sync_completeness", "parity_check"}
          => saved_last_updated_at = start_saved /\ ~save_ran
    /\ ~save_ran => saved_last_updated_at = start_saved

\* C1 witness: a second cycle that failed in a step before the commit, after a first
\* cycle had committed its mark: the mark is still the first cycle's
C1_Witness ==
    /\ pc = "exited"
    /\ cycles = 2
    /\ sync_status.status = "failed"
    /\ raised_in = "validate_sync_completeness"
    /\ start_saved >= FirstNow
    /\ saved_last_updated_at = start_saved

C3_FullSyncParityFails ==
    (pc = "exited" /\ cmd.cycle_mode = "full" /\ parity_violation
       /\ raised_in \in {"none", "parity_check"})
      => /\ raised_in = "parity_check"
         /\ sync_status.status = "failed"
         /\ sync_status.last_error \notin {"None", ""}
         /\ saved_last_updated_at = start_saved

\* C4: in an incremental cycle a parity mismatch, aggregate or sample, is only
\* logged: validate_sync_completeness does not raise for it, and when nothing else
\* raises the high-water mark is committed and the cycle ends with status success.
C4_IncrementalParityOnlyLogged ==
    (cmd.cycle_mode = "incremental" /\ parity_violation)
      => /\ raised_in # "parity_check"
         /\ (pc = "exited" /\ raised_in = "none")
              => /\ sync_status.status = "success"
                 /\ sync_status.last_error = "None"
                 /\ save_ran
                 /\ saved_last_updated_at = cmd.cycle_started_at

\* C4 witness: an incremental cycle with a parity mismatch that ended in success with
\* the mark committed
C4_Witness ==
    /\ pc = "exited"
    /\ cmd.cycle_mode = "incremental"
    /\ parity_violation
    /\ raised_in = "none"
    /\ sync_status.status = "success"
    /\ saved_last_updated_at = cmd.cycle_started_at
    /\ saved_last_updated_at # start_saved

\* C5 as stated: when a cycle ends because of an error, the status row shows the
\* failure once the error has left handle: status is failed or last_error is
\* populated, and status is not left as running.
C5_FatalErrorPersisted ==
    (pc = "exited" /\ raised_in # "none")
      => /\ sync_status.status # "running"
         /\ sync_status.status = "failed" \/ sync_status.last_error \notin {"None", ""}

-----------------------------------------------------------------------------
(* Claims about the Client's cache *)

\* the latest call was fetch_from_api or fetch_from_api_by_id
FetchCalled == last_call.op \in {"fetch_from_api", "fetch_from_api_by_id"}

\* C6 (as stated): between two clear_cache calls at most one network request is
\* issued per list key and per (model, id), and every repeated call returns the
\* value cached by the first successful call and makes no network request.
C6_AsStated ==
    /\ \A k \in DOMAIN net_requests : net_requests[k].total <= 1
    /\ (FetchCalled /\ last_call.known)
          => /\ last_call.requests = 0
             /\ last_call.kind = "return"
             /\ last_call.value = first_cached[last_call.key]

\* a line_item list entry {invoice_id[, page]} as prefetch_line_items builds it
PrefetchBuilt(k) ==
    /\ k.model = "line_item" /\ k.kind = "list"
    /\ HasParam(k.params, "invoice_id")
    /\ has_line_item_in_cache
    /\ cache[k].meta.per_page = PREFETCH_PER_PAGE
    /\ \A n \in DOMAIN cache[k].rows : cache[k].rows[n].form = "fields"

\* the latest call was fetch_from_api_by_id for an invoice LineItem, which runs
\* prefetch_line_items before it looks its key up
ForInvoiceLineItem ==
    last_call.op = "fetch_from_api_by_id" /\ last_call.key.model = "lineitem"

\* C6: between two clear_cache calls a key is fetched well over the network at
\* most once: a call that finds its key cached makes no network request for it
\* and, when it returns, returns the cached value (it makes no request at all
\* and does return, unless it is a by-id call for an invoice LineItem, whose
\* prefetch may list line items and may raise); a call that raised cached
\* nothing for its key; the cached value is the one the first successful call
\* stored, unless it is a line_item list entry that prefetch_line_items has
\* built anew.
C6_OneSuccessfulFetchPerKey ==
    /\ \A k \in DOMAIN net_requests :
          /\ net_requests[k].ok <= 1
          /\ net_requests[k].ok = 1 <=> k \in DOMAIN first_cached
    /\ \A k \in DOMAIN first_cached :
          /\ k \in DOMAIN cache
          /\ cache[k] = first_cached[k] \/ PrefetchBuilt(k)
    /\ (FetchCalled /\ last_call.hit)
          => /\ last_call.requests = 0
             /\ last_call.kind = "return" => last_call.value = cache[last_call.key]
             /\ ~ForInvoiceLineItem
                   => last_call.kind = "return" /\ last_call.network = 0
    /\ (FetchCalled /\ ~last_call.hit /\ last_call.kind = "return")
          => /\ last_call.requests = 1
             /\ net_requests[last_call.key].ok = 1
             /\ cache[last_call.key] = last_call.value
    /\ (FetchCalled /\ ~last_call.hit /\ last_call.kind = "raise")
          => last_call.key \notin DOMAIN cache

\* a key asked for three times: the first request failed, the second was answered
\* and cached, the third call was served from the cache
C6_Witness ==
    /\ last_call.op = "fetch_from_api"
    /\ last_call.hit
    /\ last_call.requests = 0
    /\ last_call.key \in DOMAIN net_requests
    /\ net_requests[last_call.key].total = 2
    /\ net_requests[last_call.key].ok = 1
    /\ last_call.value = first_cached[last_call.key]
    /\ calls_made = 3

-----------------------------------------------------------------------------
(* Claims about Client.request and the rate limiter *)

\* recorded requests younger than the window
RequestsInWindow ==
    Cardinality({i \in DOMAIN request_timestamps :
                    request_timestamps[i] < WindowSeconds})

\* C7: for every sequence of request attempts, the number of requests recorded
\* within any sliding 60-second window never exceeds REQUEST_LIMIT: a full window
\* makes _wait_for_rate_limit sleep before the new request is recorded.
C7_WindowNeverExceedsLimit == RequestsInWindow <= REQUEST_LIMIT

\* the current call of request has ended
CallEnded == req_pc = "idle" /\ responses # <<>>

\* 429, another unexpected non-200 status, or a transport RequestException
RetryableOutcome(http) ==
    \/ http.kind = "transport_error"
    \/ http.status \notin {HTTP_OK, HTTP_UNAUTHORIZED, HTTP_NOT_FOUND}

\* C8: one call of request makes at most MAX_RETRIES HTTP attempts; if every
\* attempt ended in a retryable error, the call has made exactly MAX_RETRIES
\* attempts and ended by raising the exception of the last attempt, unchanged.
C8_AtMostMaxRetriesAttempts ==
    /\ Len(responses) <= MAX_RETRIES
    /\ attempt_number <= MAX_RETRIES
    /\ (CallEnded /\ \A i \in DOMAIN responses : RetryableOutcome(responses[i]))
          => /\ Len(responses) = MAX_RETRIES
             /\ Len(errors) = MAX_RETRIES
             /\ outcome = errors[MAX_RETRIES]
             /\ outcome = StatusError(responses[MAX_RETRIES], MAX_RETRIES)
             /\ outcome.kind = "raise"
             /\ outcome.type \in {"RequestException", "ConnectionError"}

\* a call that used all six attempts, the last one answered 429 after a transport
\* error, and raised
C8_Witness ==
    /\ CallEnded
    /\ Len(responses) = MAX_RETRIES
    /\ \A i \in DOMAIN responses : RetryableOutcome(responses[i])
    /\ responses[MAX_RETRIES].status = HTTP_TOO_MANY_REQUESTS
    /\ responses[MAX_RETRIES - 1].kind = "transport_error"
    /\ outcome.kind = "raise"
    /\ outcome.message = "Rate limit reached"

FatalStatus(http) ==
    http.kind = "response" /\ http.status \in {HTTP_UNAUTHORIZED, HTTP_NOT_FOUND}

\* C9: a 401 or 404 ends the request with that attempt, whatever the attempt
\* number: 401 raises PermissionError, 404 raises ValueError, no further attempt
\* is made and no retry sleep follows it.
C9_FatalStatusEndsRequest ==
    \A i \in DOMAIN responses :
        FatalStatus(responses[i]) =>
            /\ i = Len(responses)
            /\ req_pc = "idle"
            /\ outcome.kind = "raise"
            /\ outcome.attempt = i
            /\ outcome.type = IF responses[i].status = HTTP_UNAUTHORIZED
                              THEN "PermissionError" ELSE "ValueError"
            /\ Len(retry_sleeps) = i - 1

\* a 401 on the third attempt, after two retried ones, ended the call
C9_Witness ==
    /\ Len(responses) = 3
    /\ responses[3].status = HTTP_UNAUTHORIZED
    /\ outcome.type = "PermissionError"
    /\ Len(retry_sleeps) = 2
    /\ req_pc = "idle"

\* a status other than 200, 401 and 404
RetryableStatus(http) ==
    http.kind = "response"
    /\ http.status \notin {HTTP_OK, HTTP_UNAUTHORIZED, HTTP_NOT_FOUND}

\* the last attempt so far got a retryable status and was not the last allowed
RetryPending ==
    /\ responses # <<>>
    /\ Len(responses) < MAX_RETRIES
    /\ RetryableStatus(responses[Len(responses)])

C10_Safety ==
    /\ RetryPending => req_pc # "idle"
    /\ \A i \in DOMAIN responses :
          (responses[i].kind = "response" /\ responses[i].status = HTTP_OK)
             => /\ i = Len(responses)
                /\ req_pc = "idle"
                /\ outcome.kind = "return"
                /\ outcome.attempt = i
                /\ Len(retry_sleeps) = i - 1

\* C10: a 429 or any other non-200 status except 401/404 on an attempt before the
\* last leads to a further attempt (the call does not end there, and the next
\* attempt is made); the first 200 within the budget is returned, nothing is
\* raised, and the number of HTTP attempts is the index of that 200.
C10_RetryUntilFirstSuccess ==
    /\ []C10_Safety
    /\ RetryPending ~> ~RetryPending

\* a 200 on the sixth attempt, after 429 and 500 answers, was returned
C10_Witness ==
    /\ Len(responses) = MAX_RETRIES
    /\ responses[MAX_RETRIES].status = HTTP_OK
    /\ responses[1].status = HTTP_TOO_MANY_REQUESTS
    /\ responses[MAX_RETRIES - 1].status = HTTP_INTERNAL_SERVER_ERROR
    /\ outcome.kind = "return"
    /\ outcome.attempt = MAX_RETRIES
    /\ req_pc = "idle"

(***************************************************************************)
(* Pagination of get_model                                                 *)
(***************************************************************************)

\* the latest call consumed get_model to its end without an exception
Listed == last_call.op = "get_model" /\ last_listing.raised = ""

\* the sequence lo, lo + 1, ..., hi
Range(lo, hi) == [i \in 1..(hi - lo + 1) |-> lo + i - 1]

\* the ids of the rows of the pages `pages` of the listing, page after page
RECURSIVE RowIdsOfPages(_, _)
RowIdsOfPages(store, pages) ==
    IF pages = <<>> THEN <<>>
    ELSE LET first == (Head(pages) - 1) * ServerPerPage + 1
             last == Min(Head(pages) * ServerPerPage, Len(store))
         IN  [i \in 1..(last - first + 1) |-> store[first + i - 1].id]
             \o RowIdsOfPages(store, Tail(pages))

\* C11: get_model with num_last_pages = k >= 1 over a listing whose meta reports
\* total_pages = T > 1 asks for page 1 and then for max(2, T - k + 1), ..., T, in
\* increasing order and each once.
C11_LastPagesWindow ==
    (/\ Listed
     /\ last_listing.meta = "present"
     /\ last_listing.num_last_pages >= 1
     /\ last_listing.total_pages > 1)
    => last_listing.pages
         = <<1>> \o Range(Max(2, last_listing.total_pages
                                    - last_listing.num_last_pages + 1),
                           last_listing.total_pages)

\* five pages and a window of two: pages 1, 4, 5
C11_Witness ==
    /\ Listed
    /\ last_listing.meta = "present"
    /\ last_listing.total_pages = 5
    /\ last_listing.num_last_pages = 2
    /\ last_listing.pages = <<1, 4, 5>>

\* C12: get_model without num_last_pages over a listing of T pages asks for the
\* pages 1..T, each once and in increasing order, yields the records in page
\* order and stops after page T; without meta, or with T <= 1, it asks for page 1
\* only and ends.
C12_AllPagesInOrder ==
    (Listed /\ last_listing.num_last_pages = 0)
    => /\ last_listing.pages
            = IF last_listing.meta = "absent" \/ last_listing.total_pages <= 1
              THEN <<1>> ELSE Range(1, last_listing.total_pages)
       /\ [i \in DOMAIN last_listing.rows |-> last_listing.rows[i].id]
            = RowIdsOfPages(last_listing.store, last_listing.pages)

\* a listing of three pages was read to its end
C12_Witness ==
    /\ Listed
    /\ last_listing.num_last_pages = 0
    /\ last_listing.meta = "present"
    /\ last_listing.total_pages = 3
    /\ last_listing.pages = <<1, 2, 3>>
    /\ Len(last_listing.rows) = Len(last_listing.store)

(***************************************************************************)
(* Prefetch of invoice line items                                          *)
(***************************************************************************)

\* the network requests made so far for the pages of the flat line-item listing
FlatRequests ==
    [k \in {key \in DOMAIN net_requests : IsFlatKey(key)} |-> net_requests[k]]

\* the latest call ran prefetch_line_items before anything else
PrefetchTriggered ==
    \/ last_call.op = "fetch_related_models_by_parent"
    \/ ForInvoiceLineItem

\* C13: between two clear_cache calls every page of the flat line-item listing is
\* fetched over the network at most once, however often by-id and per-parent
\* lookups trigger prefetch_line_items; once the prefetch has completed, no later
\* call makes a request for the flat listing.
C13_PrefetchOncePerCycle ==
    /\ [](\A k \in DOMAIN FlatRequests : FlatRequests[k].ok <= 1)
    /\ [][(has_line_item_in_cache /\ last_call'.op # "clear_cache")
             => FlatRequests' = FlatRequests]_vars

\* the prefetch has completed in an earlier call, and the latest call, which
\* triggered it again, made no network request at all
C13_Witness ==
    /\ has_line_item_in_cache
    /\ PrefetchTriggered
    /\ last_call.kind = "return"
    /\ last_call.network = 0
    /\ FlatKey(1) \in DOMAIN FlatRequests
    /\ \A k \in DOMAIN FlatRequests : FlatRequests[k].ok = 1

\* the ids of the prefetched line items of the invoice `parent`: the rows of the
\* flat listing the Client holds
PrefetchedIds(parent) ==
    LET of_parent(k) == {n \in DOMAIN cache[k].rows :
                            cache[k].rows[n].invoice_id = parent}
        places == UNION { {<<k, n>> : n \in of_parent(k)} :
                            k \in {key \in DOMAIN cache : IsFlatKey(key)} }
    IN  {cache[place[1]].rows[place[2]].id : place \in places}

\* the latest call looked up the line items of the invoice LookedUp
LookupCalled == last_call.op = "fetch_related_models_by_parent"
LookedUp == ParamValue(last_call.key.params, "invoice_id", 0)

\* the lookup about to end was answered from the cache with the prefetched line
\* items of its invoice
ServedFromPrefetch ==
    /\ last_call'.network = 0
    /\ last_call'.kind = "return"
    /\ {last_call'.value.rows[n].id : n \in DOMAIN last_call'.value.rows}
         = PrefetchedIds(LookedUp')
    /\ Len(last_call'.value.rows) = Cardinality(PrefetchedIds(LookedUp'))

\* C14 (as stated): once prefetch_line_items has completed, every per-parent lookup,
\* for every parent invoice, is answered from the cache without a network call,
\* and returns exactly the prefetched line items of that invoice.
C14_LookupsServedFromCache ==
    [][(has_line_item_in_cache /\ LookupCalled') => ServedFromPrefetch]_vars

(***************************************************************************)
(* Two Client objects                                                      *)
(***************************************************************************)

\* C15 (as stated): the cache and the request-timestamp window belong to one
\* Client object: an entry cached, or a request recorded, through one object is
\* never visible through another, and clear_cache on one object leaves the
\* cache of the other as it is.
C15_InstanceScoped ==
    /\ [](\A client \in Clients :
             /\ \A k \in DOMAIN SelfCache(client) : cached_through[k] = client
             /\ \A n \in DOMAIN SelfRequestTimestamps(client) :
                    recorded_through[n] = client)
    /\ [][\A client \in Clients :
             (last_instance_call' = [client |-> client, op |-> "clear_cache"]
              /\ instance_calls' # instance_calls)
             => \A other \in Clients \ {client} : SelfCache(other)' = SelfCache(other)]_vars

(***************************************************************************)
(* Payload validation of fetch_from_api and fetch_from_api_by_id           *)
(***************************************************************************)

\* the latest call made one request, and a response arrived
Answered(op) ==
    last_call.op = op /\ ~last_call.hit /\ last_answer.received

\* the payload is not an object, lacks the '<model>s' list, holds a row that is
\* neither object nor array, or carries a meta that is not an object
MalformedList ==
    \/ last_answer.payload # "object"
    \/ last_answer.collection # "array"
    \/ last_answer.items \notin {"object", "array"}
    \/ last_answer.meta \notin {"object", "null"}

\* C16: fetch_from_api answered by a malformed payload raises ValueError after
\* that one request, writes no cache entry and leaves the cache as it was.
C16_MalformedListRejected ==
    [][(Answered("fetch_from_api")' /\ MalformedList' /\ calls_made' # calls_made)
         => /\ last_call'.kind = "raise"
            /\ last_call'.raised = "ValueError"
            /\ last_call'.requests = 1
            /\ last_call'.network = 1
            /\ cache' = cache]_vars

\* a payload with a meta that is no object was rejected while the cache held an
\* earlier entry, which it still holds
C16_Witness ==
    /\ Answered("fetch_from_api")
    /\ last_answer.meta = "string"
    /\ last_answer.payload = "object" /\ last_answer.collection = "array"
    /\ last_answer.items = "object"
    /\ last_call.raised = "ValueError"
    /\ last_call.key \notin DOMAIN cache
    /\ cache # <<>>

\* the response holds the model under its snake_case or its lowercase name, and
\* what it holds there is a non-empty object
WellFormedById ==
    /\ last_answer.payload = "object"
    /\ last_answer.key \in {"dummy_model", "dummymodel"}
    /\ last_answer.value = "object"

\* C17: fetch_from_api_by_id returns only when the response holds the model under
\* its snake_case or lowercase name as a non-empty object, and then caches it;
\* otherwise it raises ValueError and caches nothing for the id, and a call that
\* does not find its id cached goes to the network.
C17_ByIdPayloadChecked ==
    /\ Answered("fetch_from_api_by_id")
          => /\ last_call.kind = "return" => WellFormedById
             /\ WellFormedById
                   => /\ last_call.kind = "return"
                      /\ cache[last_call.key] = last_call.value
             /\ ~WellFormedById
                   => /\ last_call.kind = "raise"
                      /\ last_call.raised = "ValueError"
                      /\ last_call.key \notin DOMAIN cache
    /\ (last_call.op = "fetch_from_api_by_id" /\ ~last_call.hit)
          => last_call.requests = 1

\* the first call for the id was answered under a wrong key and raised; the
\* second went to the network again and was answered under the lowercase name
C17_Witness ==
    /\ Answered("fetch_from_api_by_id")
    /\ last_call.kind = "return"
    /\ last_answer.key = "dummymodel"
    /\ calls_made = 2
    /\ last_call.key \in DOMAIN net_requests
    /\ net_requests[last_call.key] = [total |-> 2, ok |-> 1]

(***************************************************************************)
(* The heartbeat rule of the command                                       *)
(***************************************************************************)

\* the step is a call that writes the heartbeat only if it is due
NonForcedHeartbeatCall ==
    heartbeat_calls' # heartbeat_calls /\ heartbeat_call' = "_on_page_progress"

\* at the call, one of the three conditions holds: 100 records or more since the
\* last write; the page a multiple of 10 beyond the page last written; or no
\* write yet, or one 30 seconds or more ago
HeartbeatConditions ==
    \/ cmd'.records_processed - cmd.last_written_records >= 100
    \/ cmd'.current_page % 10 = 0 /\ cmd'.current_page > cmd.last_written_page
    \/ cmd.last_written_at = NoTime
    \/ (now - cmd.last_written_at) * SecondsPerTick >= 30

\* the call wrote the row, and the values last written are the current ones
HeartbeatWritten ==
    /\ sync_status'.last_heartbeat = now
    /\ sync_status'.current_model = cmd'.current_model
    /\ sync_status'.current_page = cmd'.current_page
    /\ sync_status'.records_processed = cmd'.records_processed
    /\ cmd'.last_written_at = now
    /\ cmd'.last_written_page = cmd'.current_page
    /\ cmd'.last_written_records = cmd'.records_processed

\* the call wrote nothing
HeartbeatNotWritten ==
    /\ sync_status' = sync_status
    /\ cmd'.last_written_at = cmd.last_written_at
    /\ cmd'.last_written_page = cmd.last_written_page
    /\ cmd'.last_written_records = cmd.last_written_records

\* C18: a non-forced heartbeat call writes iff 100 records or more were processed
\* since the last write, or the page is a multiple of 10 greater than the page
\* last written, or nothing was written yet or the last write is 30 seconds or
\* more ago; after a write the page, count and time last written are the
\* current ones.
C18_HeartbeatWrittenIffDue ==
    [][NonForcedHeartbeatCall
         => IF HeartbeatConditions THEN HeartbeatWritten ELSE HeartbeatNotWritten]_vars

\* a page was reported right after a write, with 100 more records and nothing
\* else due, and the heartbeat was written
C18_Witness ==
    /\ heartbeat_call = "_on_page_progress"
    /\ heartbeat_calls = 3
    /\ cmd.last_written_at = now
    /\ cmd.last_written_records = 2 * HEARTBEAT_RECORD_INTERVAL
    /\ cmd.last_written_page = HEARTBEAT_PAGE_INTERVAL - 1
    /\ sync_status.records_processed = 2 * HEARTBEAT_RECORD_INTERVAL
    /\ sync_status.last_heartbeat = now
    /\ now = FirstNow

(***************************************************************************)
(* The sync_status command                                                 *)
(***************************************************************************)

\* the command has ended; Payload is what it wrote
CommandEnded == exit_code # -1
Payload == stdout[1]

\* the half seconds from the stored heartbeat to the command's clock
HeartbeatLag ==
    status_options.current_time - HalfSeconds(sync_status.last_heartbeat)

\* C19: in the payload heartbeat_age_seconds and cycle_age_seconds are never
\* negative when they are not null, also for stored times after the clock;
\* heartbeat_age_seconds is the whole seconds since the heartbeat; and is_stale
\* holds iff the status is running, a heartbeat exists, the threshold is over 0
\* and the heartbeat age is over the threshold.
C19_AgesAndStaleness ==
    CommandEnded =>
        /\ Payload.heartbeat_age_seconds # <<>> => Payload.heartbeat_age_seconds[1] >= 0
        /\ Payload.cycle_age_seconds # <<>> => Payload.cycle_age_seconds[1] >= 0
        /\ sync_status.id # 0 =>
              /\ Payload.heartbeat_age_seconds # <<>>
                    <=> sync_status.last_heartbeat # NoTime
              /\ Payload.cycle_age_seconds # <<>>
                    <=> sync_status.cycle_started_at # NoTime
              /\ (sync_status.last_heartbeat # NoTime /\ HeartbeatLag >= 0)
                    => /\ 2 * Payload.heartbeat_age_seconds[1] <= HeartbeatLag
                       /\ HeartbeatLag < 2 * Payload.heartbeat_age_seconds[1] + 2
              /\ (sync_status.last_heartbeat # NoTime /\ HeartbeatLag < 0)
                    => Payload.heartbeat_age_seconds[1] = 0
        /\ Payload.is_stale
              <=> /\ sync_status.id # 0
                  /\ sync_status.status = "running"
                  /\ sync_status.last_heartbeat # NoTime
                  /\ status_options.stale_threshold_seconds > 0
                  /\ Payload.heartbeat_age_seconds[1]
                        > status_options.stale_threshold_seconds

\* the heartbeat and the start of the cycle lie after the command's clock, and
\* both ages are 0
C19_Witness ==
    /\ CommandEnded
    /\ sync_status.id # 0
    /\ sync_status.last_heartbeat > now
    /\ sync_status.cycle_started_at > now
    /\ sync_status.status = "running"
    /\ Payload.heartbeat_age_seconds = <<0>>
    /\ Payload.cycle_age_seconds = <<0>>
    /\ ~Payload.is_stale

\* C20: the command writes exactly one line and ends with code 2 iff
\* --fail-on-stale was given and the payload says is_stale; otherwise it
\* returns normally.
C20_ExitCodeTwoIffStale ==
    /\ ~CommandEnded => stdout = <<>>
    /\ CommandEnded =>
          /\ Len(stdout) = 1
          /\ exit_code \in {0, 2}
          /\ exit_code = 2 <=> (status_options.fail_on_stale /\ Payload.is_stale)

\* a stale running row and --fail-on-stale: one line, exit code 2
C20_Witness ==
    /\ CommandEnded
    /\ Len(stdout) = 1
    /\ Payload.is_stale
    /\ status_options.fail_on_stale
    /\ exit_code = 2

(***************************************************************************)
(* The supervisor and its watchdog                                         *)
(***************************************************************************)

Last(seq) == seq[Len(seq)]

\* the watchdog sends a signal in this step
SignalSent == watchdog'.signals # watchdog.signals /\ watchdog'.signals # <<>>

\* a status query of the watchdog ends in this step, answered or given up
QueryEnded == watchdog.pc = "querying" /\ watchdog'.pc \in {"watching", "signalled"}

\* what the row says now: a running cycle with a heartbeat older than the threshold
RowStale ==
    /\ sync_status.id # 0
    /\ sync_status.status = "running"
    /\ sync_status.last_heartbeat # NoTime
    /\ SecondsSince(sync_status.last_heartbeat) > SYNC_STALE_HEARTBEAT_SECONDS

\* C21: the graceful termination signal is sent in the step in which the
\* consecutive-stale counter reaches SYNC_WATCHDOG_MAX_STALE_COUNT (3) and never
\* while the counter is below it; the forced termination is sent only after the
\* graceful one, to a process that is still alive when the grace period is over.
C21_EscalationAtMaxStaleCount ==
    /\ [](/\ watchdog.signals # <<>>
              <=> watchdog.stale_count >= SYNC_WATCHDOG_MAX_STALE_COUNT
          /\ watchdog.stale_count <= SYNC_WATCHDOG_MAX_STALE_COUNT
          /\ watchdog.signals \in {<<>>, <<"TERM">>, <<"TERM", "KILL">>})
    /\ [][SignalSent =>
            IF watchdog'.signals = <<"TERM">>
            THEN /\ watchdog.stale_count = SYNC_WATCHDOG_MAX_STALE_COUNT - 1
                 /\ watchdog'.stale_count = SYNC_WATCHDOG_MAX_STALE_COUNT
                 /\ RowStale
                 /\ Alive
            ELSE /\ watchdog.signals = <<"TERM">>
                 /\ Alive
                 /\ SecondsSince(watchdog.signalled_at)
                      >= SYNC_WATCHDOG_TERM_GRACE_SECONDS]_vars

\* three stale polls in a row, the graceful signal ignored, the forced one sent
C21_Witness ==
    /\ watchdog.polls = <<"stale", "stale", "stale">>
    /\ watchdog.stale_count = 3
    /\ watchdog.signals = <<"TERM", "KILL">>
    /\ watchdog.process = "terminated"
    /\ pc = "killed"

\* the stale polls among the latest polls from place i on
StalePollsFrom(i) ==
    Cardinality({j \in i..Len(watchdog.polls) : watchdog.polls[j] = "stale"})

\* C22: a poll that finds the status running with a heartbeat older than the
\* threshold raises the consecutive-stale counter by one, every other answered
\* poll (a fresh heartbeat) sets it to zero, so the counter never exceeds the
\* stale polls since the latest fresh one.
C22_CounterCountsConsecutiveStalePolls ==
    /\ [](\A i \in 1..Len(watchdog.polls) :
             watchdog.polls[i] = "fresh" => watchdog.stale_count <= StalePollsFrom(i + 1))
    /\ [][QueryEnded =>
            /\ Last(watchdog'.polls) = "stale"
                 => /\ RowStale
                    /\ watchdog'.stale_count = watchdog.stale_count + 1
            /\ Last(watchdog'.polls) = "fresh"
                 => /\ ~RowStale
                    /\ watchdog'.stale_count = 0
            /\ Last(watchdog'.polls) \in {"stale", "fresh", "timeout"}]_vars

\* two stale polls, a fresh one, a stale one: the counter is 1
C22_Witness ==
    /\ watchdog.polls = <<"stale", "fresh", "stale">>
    /\ watchdog.stale_count = 1
    /\ watchdog.signals = <<>>
    /\ Alive

\* C23: while the start-up grace period of the running launch lasts, no poll is
\* counted as stale and no signal is sent, whatever the status row says.
C23_StartupGraceSuppressesStaleness ==
    (watchdog.pc \in {"watching", "querying", "signalled"} /\ InStartupGrace) =>
        /\ watchdog.stale_count = 0
        /\ watchdog.signals = <<>>
        /\ \A i \in 1..Len(watchdog.polls) : watchdog.polls[i] = "skipped"
        /\ watchdog.pc = "watching"

\* the second launch boots while the row of the killed cycle still says running
\* with its old heartbeat: the poll is skipped
C23_Witness ==
    /\ watchdog.pc = "watching"
    /\ InStartupGrace
    /\ watchdog.polls = <<"skipped">>
    /\ RowStale
    /\ prev_end = "killed" \/ pc = "killed"
    /\ watchdog.stale_count = 0

\* the watchdog has terminated the sync process of the latest launch
TerminatedByWatchdog ==
    watchdog.process = "terminated" /\ watchdog.signals # <<>>

\* after a termination by the watchdog the supervisor reports a failure and sleeps
\* SYNC_FAILURE_SLEEP_SECONDS before it is ready for the next launch
CooldownAfterTermination ==
    /\ [](TerminatedByWatchdog =>
            /\ watchdog.pc \in {"signalled", "sleeping", "ready"}
            /\ watchdog.pc \in {"sleeping", "ready"}
                 => /\ watchdog.reported = "failed"
                    /\ watchdog.slept = SYNC_FAILURE_SLEEP_SECONDS
            /\ watchdog.pc = "ready"
                 => SecondsSince(watchdog.signalled_at) >= SYNC_FAILURE_SLEEP_SECONDS)
    /\ [][(watchdog.pc = "ready" /\ watchdog'.pc # "ready") =>
            /\ watchdog'.process = "booting"
            /\ watchdog.process # "none" => watchdog.slept > 0]_vars

\* the process launched next enters handle: it reads the persisted mark
NextCycleReadsCommittedMark ==
    [][(watchdog.process = "booting" /\ watchdog'.process = "running") =>
          /\ settings_last_updated_at' = saved_last_updated_at
          /\ saved_last_updated_at' = saved_last_updated_at
          /\ full_sync' = IsFullSyncRun(saved_last_updated_at)]_vars

\* C24 as stated: after the watchdog terminated the sync process the supervisor
\* sleeps the failure cooldown before the next launch, the next cycle reads the
\* persisted high-water mark, and the killed cycle has not advanced that mark.
C24_AsStated ==
    /\ CooldownAfterTermination
    /\ NextCycleReadsCommittedMark
    /\ [](pc = "killed" => saved_last_updated_at = start_saved)

\* C24: after the watchdog terminated the sync process the supervisor sleeps the
\* failure cooldown before the next launch and the next cycle reads the persisted
\* high-water mark; the killed cycle has not advanced that mark unless it was
\* terminated after its settings.save() had run.
C24_CooldownThenCommittedMark ==
    /\ CooldownAfterTermination
    /\ NextCycleReadsCommittedMark
    /\ [](pc = "killed" => (save_ran \/ saved_last_updated_at = start_saved))

\* the second cycle runs after the watchdog terminated the first, which had not
\* saved: a failure was reported, the cooldown slept, the mark is the one the first
\* cycle found
C24_Witness ==
    /\ cycles = 2
    /\ prev_end = "killed"
    /\ pc = "models"
    /\ watchdog.process = "running"
    /\ watchdog.reported = "failed"
    /\ watchdog.slept = SYNC_FAILURE_SLEEP_SECONDS
    /\ settings_last_updated_at = NoTime
    /\ full_sync

\* C25: a status query is given up when its timeout has passed; the poll that timed
\* out leaves the counter as it was, sends no signal and is followed by the sleep
\* to the next poll; and a sync process that exits with 0, also while a query
\* is pending, is reported as done.
C25_HungQueryAbandoned ==
    /\ [](watchdog.pc = "querying" => now <= watchdog.deadline)
    /\ [][(QueryEnded /\ Last(watchdog'.polls) = "timeout") =>
            /\ watchdog'.stale_count = watchdog.stale_count
            /\ watchdog'.signals = watchdog.signals
            /\ watchdog'.pc = "watching"
            /\ watchdog'.deadline = now + PollTicks
            /\ UNCHANGED orch_vars]_vars
    /\ [][(watchdog.process = "exited" /\ watchdog' # watchdog
           /\ watchdog.pc \in {"watching", "querying", "signalled"}) =>
            /\ watchdog'.pc = "sleeping"
            /\ watchdog'.reported = "done"
            /\ watchdog'.signals = watchdog.signals]_vars

\* two polls timed out, and the process that finished meanwhile was reported as done
C25_Witness ==
    /\ watchdog.polls = <<"skipped", "timeout", "timeout">>
    /\ watchdog.stale_count = 0
    /\ watchdog.process = "exited"
    /\ watchdog.reported = "done"
    /\ sync_status.status = "success"

(***************************************************************************)
(* The local store                                                         *)
(***************************************************************************)

\* the latest call carried a valid id and its write did not raise
Upserted == upsert_call.returned = "obj"
UpsertedId == NormalizeIdentifier(upsert_call.api_instance.id)

\* every call so far carried a valid id and wrote its row
AllUpserted == upsert_call.written = upsert_calls

\* C26: after any number of calls of create_or_update_django_instance with
\* records of one id the table holds exactly one row for that id, with the field
\* values of the latest call, and processing a record again has created no
\* duplicate: the store holds no more rows of TicketProperties than tickets.
C26_IdempotentPerIdentifier ==
    /\ Upserted =>
          /\ UpsertedId \in DOMAIN tables.ticket
          /\ tables.ticket[UpsertedId].subject = upsert_call.api_instance.subject
          /\ tables.ticket[UpsertedId].number
               = CoerceIntegerValue(upsert_call.api_instance.number)
    /\ AllUpserted =>
          Len(tables.ticket_properties) <= Cardinality(DOMAIN tables.ticket)

(***************************************************************************)
(* The rate limiter, one call                                              *)
(***************************************************************************)

\* what _wait_for_rate_limit finds after its first purge
LimiterWindow == ClearOldRequestTimestamps(request_timestamps)

\* this step is an attempt of request whose call of _wait_for_rate_limit slept
\* overshoot seconds longer than it asked for
LimiterCalled(overshoot) ==
    /\ req_pc = "attempt"
    /\ attempts_made' = attempts_made + 1
    /\ request_timestamps'
         = Elapse(WaitForRateLimit(request_timestamps, api_sleep_time,
                                   overshoot).timestamps, HttpSeconds)
    /\ api_sleep_time'
         = WaitForRateLimit(request_timestamps, api_sleep_time,
                            overshoot).api_sleep_time

\* the entries of the window at the return of _wait_for_rate_limit
LimiterResult(overshoot) ==
    WaitForRateLimit(request_timestamps, api_sleep_time, overshoot)

\* the claim as stated: with more than REQUEST_LIMIT timestamps in the window the
\* call sleeps a positive time, api_sleep_time grows by what was slept, and at
\* the return every entry of the window is younger than 60 seconds
C27_AsStated ==
    [][\A overshoot \in Overshoots :
          (LimiterCalled(overshoot) /\ Len(LimiterWindow) > REQUEST_LIMIT)
            => /\ LimiterResult(overshoot).sleep_time > 0
               /\ api_sleep_time'
                    = api_sleep_time + LimiterResult(overshoot).sleep_time
               /\ \A i \in DOMAIN LimiterResult(overshoot).timestamps :
                     LimiterResult(overshoot).timestamps[i] < WindowSeconds]_vars

\* C27: when _wait_for_rate_limit is called with more than REQUEST_LIMIT
\* timestamps in the window, it asks for a sleep of 60 seconds less the age of the
\* oldest entry, which is positive unless that entry is exactly 60 seconds old
\* (then it does not sleep); api_sleep_time grows by exactly the time asked for;
\* at the return no entry of the window is older than 60 seconds, the entry of
\* the new request is the last one, and an entry of exactly 60 seconds may remain.
C27_SleepsUntilOldestLeaves ==
    [][\A overshoot \in Overshoots :
          (LimiterCalled(overshoot) /\ Len(LimiterWindow) > REQUEST_LIMIT)
            => /\ LimiterResult(overshoot).sleep_time
                    = WindowSeconds - LimiterWindow[1]
               /\ LimiterResult(overshoot).sleep_time > 0
                    <=> LimiterWindow[1] < WindowSeconds
               /\ api_sleep_time'
                    = api_sleep_time + LimiterResult(overshoot).sleep_time
               /\ \A i \in DOMAIN LimiterResult(overshoot).timestamps :
                     LimiterResult(overshoot).timestamps[i] <= WindowSeconds
               /\ Last(LimiterResult(overshoot).timestamps) = 0]_vars

\* the limiter has slept and returned with the entry it waited for still in the
\* window: REQUEST_LIMIT + 2 entries one HTTP exchange later
C27_Witness ==
    /\ api_sleep_time > 0
    /\ Len(request_timestamps) = REQUEST_LIMIT + 2
    /\ Last(request_timestamps) = HttpSeconds

(***************************************************************************)
(* The progress callback                                                   *)
(***************************************************************************)

\* hasattr(self.client, "set_progress_callback") in handle, for a Client: the
\* class defines request, clear_cache, the fetch_* and get_model* methods and
\* no set_progress_callback
HasSetProgressCallback == FALSE

\* the calls of a progress callback get_model makes while it reads `pages`: the
\* body of its loop calls fetch_from_api, from_dict and from_list and then
\* chooses the next page; it calls nothing after a page
ProgressCallbackCalls(pages) == SubSeq(pages, 1, 0)

\* C28: while a progress callback is registered, get_model calls it exactly once
\* for every page it fetched, after the records of that page (so a listing read
\* to its end has made as many calls as it asked for pages), and handle can
\* register the orchestrator's callback on the Client.
C28_ProgressCallbackOncePerPage ==
    Listed
    => /\ HasSetProgressCallback
       /\ Len(ProgressCallbackCalls(last_listing.pages)) = Len(last_listing.pages)

(***************************************************************************)
(* BaseModel                                                               *)
(***************************************************************************)

\* what clean_key makes of the character at place i of key, as the steps in
\* their order leave it: a space, a slash or an underscore is an underscore,
\* followed by 2 at the end of the key; a dash at the start is transport; a
\* hash is num; any other character is itself in lower case
CleanedCharacter(key, i) ==
    IF key[i] \in {" ", "/", "_"}
    THEN IF i = Len(key) THEN <<"_", "2">> ELSE <<"_">>
    ELSE IF key[i] = "-" /\ i = 1
    THEN <<"t", "r", "a", "n", "s", "p", "o", "r", "t">>
    ELSE IF key[i] = "#" THEN <<"n", "u", "m">>
    ELSE <<Lower(key[i])>>

RECURSIVE CleanedFrom(_, _)
CleanedFrom(key, i) ==
    IF i > Len(key) THEN <<>>
    ELSE CleanedCharacter(key, i) \o CleanedFrom(key, i + 1)

\* C29: clean_key maps every key by these steps in order: spaces and slashes
\* become underscores, a leading '-' becomes 'transport', a trailing underscore
\* becomes '_2', every '#' becomes 'num', and the result is lowercased; so
\* clean_key('Tag #') = 'tag_num', clean_key('drop off/location') =
\* 'drop_off_location', clean_key('-') = 'transport' and clean_key('po_') = 'po_2'.
C29_CleanKeySteps ==
    clean_key_call.done
    => /\ clean_key_call.cleaned = CleanedFrom(clean_key_call.key, 1)
       /\ clean_key_call.key = TagNumberKey
            => clean_key_call.cleaned = <<"t", "a", "g", "_", "n", "u", "m">>
       /\ clean_key_call.key = DropOffKey
            => clean_key_call.cleaned
                 = <<"d", "r", "o", "p", "_", "o", "f", "f", "_",
                     "l", "o", "c", "a", "t", "i", "o", "n">>
       /\ clean_key_call.key = DashKey
            => clean_key_call.cleaned
                 = <<"t", "r", "a", "n", "s", "p", "o", "r", "t">>
       /\ clean_key_call.key = PoKey
            => clean_key_call.cleaned = <<"p", "o", "_", "2">>

\* a key whose last character becomes an underscore only by the first step, and
\* whose dash leads: '-# ' is 'transportnum_2'
C29_Witness ==
    /\ clean_key_call.done
    /\ clean_key_call.key = <<"-", "#", " ">>
    /\ clean_key_call.cleaned
         = <<"t", "r", "a", "n", "s", "p", "o", "r", "t", "n", "u", "m", "_", "2">>

\* the values the payload gives for a declared field that are not null, in the
\* order of their keys (a key gives a value for the field its cleaned form names)
RECURSIVE GivenFor(_, _)
GivenFor(data, name) ==
    IF data = <<>> THEN <<>>
    ELSE (IF CleanKey(Head(data).key) = name /\ Head(data).value # NoneValue
          THEN <<Head(data).value>> ELSE <<>>)
         \o GivenFor(Tail(data), name)

\* 0, False and the empty string
FalsyValues == {IntValue(0), BoolValue(FALSE), StrValue("")}

\* a string that datetime.fromisoformat rejects
Unparsable(value) == value.type = "str" /\ ParseDatetime(value.str) = NoneValue

\* C30: from_dict never drops a non-null value of a declared field: 0, False and
\* the empty string are stored as given, a string in a datetime-typed field that
\* cannot be parsed is stored as the original string (and the call returns), every
\* other non-null value is stored as given or, a parsable string in a
\* datetime-typed field, as its datetime; only a field whose key is missing or
\* whose value is null is left at its default (for id, what data.get("id", 0) gives).
C30_NonNullValuesKept ==
    from_dict_call.done
    => \A name \in FieldNames :
          LET given == GivenFor(from_dict_call.data, name)
              stored == from_dict_call.instance[name]
          IN  IF given = <<>>
              THEN stored = IF name = IdName
                            THEN DataGet(from_dict_call.data, IdName, IntValue(0))
                            ELSE FieldDefault(name)
              ELSE /\ stored # NoneValue
                   /\ Last(given) \in FalsyValues => stored = Last(given)
                   /\ Unparsable(Last(given)) => stored = Last(given)
                   /\ stored # Last(given)
                        => /\ FieldAcceptsDatetime(name)
                           /\ Last(given).type = "str"
                           /\ stored = ParseDatetime(Last(given).str)

\* a payload with number 0 and created_at 'not-a-datetime': both are stored as
\* given and the fields without a key are at their defaults
C30_Witness ==
    /\ from_dict_call.done
    /\ from_dict_call.data
         = <<[key |-> NumberName, value |-> IntValue(0)],
             [key |-> CreatedAtName, value |-> StrValue("not-a-datetime")]>>
    /\ from_dict_call.instance[NumberName] = IntValue(0)
    /\ from_dict_call.instance[CreatedAtName] = StrValue("not-a-datetime")
    /\ from_dict_call.instance[SubjectName] = NoneValue
    /\ from_dict_call.instance[IdName] = IntValue(0)

(***************************************************************************)
(* The console scripts                                                     *)
(***************************************************************************)

\* the entry point has started the first n of its commands, in their order
StartedInOrder ==
    run_django.calls
      = SubSeq(ManageCommands(run_django.entry_point), 1, Len(run_django.calls))

\* C31: runserver and import_from_repairshopr run makemigrations, then migrate,
\* then the final manage command, strictly in that order; the first step that
\* exits non-zero stops the sequence, its exit code is returned, and no later
\* step is started.
C31_MigrationsThenCommand ==
    run_django.pc # "none"
    => /\ Len(run_django.calls) <= 3
       /\ StartedInOrder
       /\ \A i \in 1..(Len(run_django.returncodes) - 1) : run_django.returncodes[i] = 0
       /\ run_django.pc = "running"
            => /\ Len(run_django.calls) < 3
               /\ \A i \in DOMAIN run_django.returncodes : run_django.returncodes[i] = 0
       /\ run_django.pc = "returned"
            => /\ run_django.calls # <<>>
               /\ run_django.exit_code = Last(run_django.returncodes)
               /\ Len(run_django.calls) < 3 => run_django.exit_code # 0

\* runserver whose migrate exited with 2: two commands started, 2 returned
C31_Witness ==
    /\ run_django.entry_point = "runserver"
    /\ run_django.pc = "returned"
    /\ run_django.calls = <<"makemigrations", "migrate">>
    /\ run_django.returncodes = <<0, 2>>
    /\ run_django.exit_code = 2

(***************************************************************************)
(* handle_model                                                            *)
(***************************************************************************)

\* the instant the persisted mark stands for, a naive value read in the current
\* time zone
MarkInstant ==
    IF handle_model_call.last_updated_at.naive
    THEN handle_model_call.last_updated_at.t - handle_model_call.zone
    ELSE handle_model_call.last_updated_at.t

\* a mark exists and is at or after the baseline
TailWindowPermitted ==
    /\ ~handle_model_call.last_updated_at.is_none
    /\ MarkInstant >= BASELINE_UPDATED_AT

\* C32: for every configured model, handle_model passes the model's
\* num_last_pages to the pager only when settings.django.last_updated_at exists
\* and is at or after BASELINE_UPDATED_AT, a naive value being made
\* timezone-aware first; when it is missing or older, num_last_pages is None and
\* the model is scanned in full; the updated_at it passes is never naive.
C32_TailWindowOnlyAfterBaseline ==
    handle_model_call.done
    => /\ handle_model_call.num_last_pages
            = IF TailWindowPermitted
              THEN ModelNumLastPages[handle_model_call.model]
              ELSE 0
       /\ ~handle_model_call.updated_at.naive

\* customer (10 pages configured) with a naive mark that reads as the baseline
\* day but lies before it in a zone east of UTC: the full scan
C32_Witness ==
    /\ handle_model_call.done
    /\ ModelNames[handle_model_call.model] = "customer"
    /\ handle_model_call.last_updated_at = Datetime(TRUE, BASELINE_UPDATED_AT)
    /\ handle_model_call.zone = 1
    /\ handle_model_call.num_last_pages = 0

\* customer with a mark at the baseline itself: its ten pages are passed on
C32_WitnessWindow ==
    /\ handle_model_call.done
    /\ ModelNames[handle_model_call.model] = "customer"
    /\ handle_model_call.last_updated_at = Datetime(FALSE, BASELINE_UPDATED_AT)
    /\ handle_model_call.num_last_pages = 10

(***************************************************************************)
(* The prefetch and the age of updated_at                                  *)
(***************************************************************************)

\* this step is a call that runs prefetch_line_items on a Client that has not
\* prefetched yet
PrefetchAttempted ==
    /\ ~has_line_item_in_cache
    /\ calls_made' = calls_made + 1
    /\ PrefetchTriggered'

\* C33: prefetch_line_items makes no request for the flat listing and leaves the
\* prefetched flag false when the client's updated_at is set and newer than now
\* minus 52 weeks; when updated_at is unset or older than that cutoff it runs the
\* flat fetch (a request for it is made, or all of it is already held) and, unless
\* the fetch raises, sets the flag and holds the flat listing; the comparison
\* with the cutoff is defined for naive and aware values alike.
C33_PrefetchSkippedWhenRecent ==
    /\ [][PrefetchAttempted
            => /\ (client_updated_at # NoTime /\ client_updated_at > RelativeCutoff)
                    => /\ FlatRequests' = FlatRequests
                       /\ ~has_line_item_in_cache'
               /\ (client_updated_at = NoTime \/ client_updated_at < RelativeCutoff)
                    => /\ has_line_item_in_cache' \/ FlatRequests' # FlatRequests
                       /\ has_line_item_in_cache' => FlatKey(1) \in DOMAIN cache']_vars
    /\ [](\A naive \in BOOLEAN, t \in UpdatedAtChoices :
            NewerThanCutoff(Datetime(naive, t))
              = IF t > RelativeCutoff THEN "yes" ELSE "no")

\* a per-parent lookup on a Client whose updated_at is one week newer than the
\* cutoff: no flat request was ever made, the flag is false, and the lookup itself
\* went to the network
C33_Witness ==
    /\ last_call.op = "fetch_related_models_by_parent"
    /\ client_updated_at = RelativeCutoff + 1
    /\ ~has_line_item_in_cache
    /\ DOMAIN FlatRequests = {}
    /\ last_call.network > 0

\* a lookup on a Client whose updated_at is a week older than the cutoff: the
\* flat listing was fetched and the flag is set
C33_WitnessOld ==
    /\ PrefetchTriggered
    /\ client_updated_at = RelativeCutoff - 1
    /\ has_line_item_in_cache
    /\ FlatKey(1) \in DOMAIN FlatRequests

-----------------------------------------------------------------------------
(* The Client within the cycles of the sync process: handle's finally block  *)
(* calls client.clear_cache()                                                *)

\* line-item lookups one cycle makes through the Client
MaxLookupsPerCycle == 1

\* handle_model of the invoices is running: line items are looked up through the
\* Client
InInvoices ==
    /\ pc = "in_model" /\ ModelNames[model_index] = "invoice"
    /\ calls_made < MaxLookupsPerCycle * cycles

\* finally: self.client.clear_cache(), then handle returns or re-raises
HandleFinally == Finally /\ ClearCacheCalled

CycleCacheNext ==
    \/ StartCycle /\ UNCHANGED <<client_vars, side_vars>>
    \/ BeginModel /\ UNCHANGED <<client_vars, side_vars>>
    \/ EndModel /\ UNCHANGED <<client_vars, side_vars>>
    \/ BeginTicketSettings /\ UNCHANGED <<client_vars, side_vars>>
    \/ EndTicketSettings /\ UNCHANGED <<client_vars, side_vars>>
    \/ BeginValidate /\ UNCHANGED <<client_vars, side_vars>>
    \/ EndValidate /\ UNCHANGED <<client_vars, side_vars>>
    \/ Commit /\ UNCHANGED <<client_vars, side_vars>>
    \/ Save /\ UNCHANGED <<client_vars, side_vars>>
    \/ Finish /\ UNCHANGED <<client_vars, side_vars>>
    \/ Except /\ UNCHANGED <<client_vars, side_vars>>
    \/ InInvoices /\ FetchRelatedCall /\ UNCHANGED <<orch_vars, req_vars, side_vars>>
    \/ InInvoices /\ FetchLineItemByIdCall /\ UNCHANGED <<orch_vars, req_vars, side_vars>>
    \/ HandleFinally /\ UNCHANGED <<req_vars, side_vars>>

CycleCacheSpecInit == OrchInit /\ RequestInit /\ CacheInit /\ SideInit
CycleCacheSpec == CycleCacheSpecInit /\ [][CycleCacheNext]_vars


C34_WitnessRaised ==
    /\ pc = "exited"
    /\ exc # NoExc
    /\ calls_made > 0
    /\ last_call.op = "clear_cache"

-----------------------------------------------------------------------------
(* The committed high-water mark, checked under Spec *)

\* handle has returned and no step of the cycle raised
CycleSucceeded == pc = "exited" /\ raised_in = "none"

\* C35: when a cycle in which no step raised has ended, the saved last_updated_at
\* is the time the cycle started (cycle_started_at), whatever time it finished
\* at, and the next cycle reads that value as its baseline: every instant from the
\* start of the cycle to its end is at or after it.
C35_MarkIsCycleStart ==
    /\ [](CycleSucceeded
            => /\ saved_last_updated_at = sync_status.cycle_started_at
               /\ saved_last_updated_at <= sync_status.cycle_finished_at)
    /\ [][(CycleSucceeded /\ pc' = "models")
            => /\ settings_last_updated_at' = sync_status.cycle_started_at
               /\ \A t \in sync_status.cycle_started_at .. sync_status.cycle_finished_at :
                     t >= settings_last_updated_at']_vars

\* the cycle after one that took time and succeeded: its baseline is the start of
\* that cycle, which is earlier than its end
C35_Witness ==
    /\ cycles = 2
    /\ prev_end = "exited"
    /\ prev_status = "success"
    /\ start_saved >= FirstNow
    /\ start_saved < now
    /\ settings_last_updated_at = start_saved
    /\ pc = "models"
    /\ sync_status.cycle_started_at > start_saved

\* a cycle that succeeded and finished later than it started
C35_WitnessEnded ==
    /\ CycleSucceeded
    /\ sync_status.cycle_finished_at > sync_status.cycle_started_at
    /\ saved_last_updated_at = sync_status.cycle_started_at

ValidateSpecInit == OrchIdle /\ RequestInit /\ CacheInit /\ SideInit
ValidateSpec == ValidateSpecInit /\ [][ValidateNext]_vars

(* Claims about validate_sync_completeness, checked under ValidateSpec *)

\* the exception the call of a check met, NoRaise when the check was not reached
MetBy(check) ==
    IF check \notin validate_call.called THEN NoRaise
    ELSE IF check = "invoice_line_items" THEN validate_call.inv
    ELSE IF check = "estimate_line_items" THEN validate_call.est
    ELSE validate_call.sample

\* the classes the claim lists for the fetch of the expected totals, with the
\* classes deriving from them
ListedForTotals ==
    {"RequestException", "HTTPError", "PermissionError", "ValueError",
     "JSONDecodeError", "TypeError"}
ListedForSample == ListedForTotals \cup {"DatabaseError", "OperationalError"}
ListedFor(check) == IF check = "sample" THEN ListedForSample ELSE ListedForTotals

C36_WitnessPropagates ==
    /\ validate_call.done
    /\ validate_call.full
    /\ validate_call.sample = "RuntimeError"
    /\ validate_call.raised = "RuntimeError"


ParitySpecInit == OrchIdle /\ RequestInit /\ CacheInit /\ SideInit
ParitySpec == ParitySpecInit /\ [][ParityNext]_vars

(* Claims about the aggregate tolerance, checked under ParitySpec *)

\* the integer part of 0.5% of n
HalfPercentOf(n) == (n * 5) \div 1000

\* C37: an aggregate count is a tolerance violation exactly when
\* |actual - expected| > max(50, floor(expected * 0.005)); the allowed delta is 50
\* for every expected count up to 10,000 and the integer part of 0.5% of the
\* expected count above that.
C37_ToleranceIsMaxOfFiftyAndHalfPercent ==
    parity_call.done =>
      /\ parity_call.exceeds
           <=> Abs(parity_call.actual - parity_call.expected)
                 > Max(50, HalfPercentOf(parity_call.expected))
      /\ parity_call.expected <= 10000 => parity_call.allowed_delta = 50
      /\ parity_call.expected > 10000
           => parity_call.allowed_delta = HalfPercentOf(parity_call.expected)

\* 20,000 expected rows and 101 too few in the store: the allowed delta is 100 and
\* the count is a violation
C37_Witness ==
    /\ parity_call.done
    /\ parity_call.expected = 20000
    /\ parity_call.actual = 19899
    /\ parity_call.allowed_delta = 100
    /\ parity_call.exceeds

\* 10,000 expected rows and 50 too many: within the tolerance
C37_WitnessWithin ==
    /\ parity_call.done
    /\ parity_call.expected = 10000
    /\ parity_call.actual = 10050
    /\ ~parity_call.exceeds


ReconcileSpecInit == OrchIdle /\ RequestInit /\ CacheInit /\ SideInit
ReconcileSpec == ReconcileSpecInit /\ [][ReconcileNext]_vars

(* Claims about reconcile_invoice_line_items, checked under ReconcileSpec *)

\* invoices that own a scanned line item the store lacked when the run began,
\* and that have a row in the store themselves
RepairCandidates ==
    {v \in reconcile.invoices :
        \E i \in LineItemIds :
           /\ reconcile.page_start <= FeedPage(i)
           /\ FeedPage(i) <= FinalPage(reconcile.page_end)
           /\ i \notin reconcile.line_items_at_start
           /\ reconcile.api_invoice[i] = v}

\* how many invoices a run with --apply re-syncs
RepairsDue ==
    IF reconcile.max_repair_invoices > 0
      THEN Min(reconcile.max_repair_invoices, Cardinality(RepairCandidates))
      ELSE Cardinality(RepairCandidates)

\* C38: the store is written only with --apply; the invoices re-synced are
\* candidates (they own a scanned line item missing locally and have a row
\* themselves), taken in ascending id order, the lowest ones first and at most
\* max_repair_invoices of them when that is > 0; and the repair_summary's
\* remaining_missing_from_scanned_set is the number of scanned-missing line-item
\* ids the store still lacks after the repairs.
C38_RepairsOnlyWithApply ==
    /\ ~reconcile.apply
         => /\ reconcile.line_items = reconcile.line_items_at_start
            /\ reconcile.repaired = <<>>
            /\ ~reconcile.repair_summary
    /\ \A n \in DOMAIN reconcile.repaired :
          /\ reconcile.repaired[n] \in RepairCandidates
          /\ \A m \in DOMAIN reconcile.repaired :
                m < n => reconcile.repaired[m] < reconcile.repaired[n]
          /\ \A v \in RepairCandidates :
                v < reconcile.repaired[n] => \E m \in 1 .. n : reconcile.repaired[m] = v
    /\ Len(reconcile.repaired) <= RepairsDue
    /\ (reconcile.pc = "returned" /\ reconcile.apply)
         => /\ Len(reconcile.repaired) = RepairsDue
            /\ reconcile.repair_summary
            /\ reconcile.remaining_missing =
                 Cardinality({i \in LineItemIds :
                                 /\ reconcile.page_start <= FeedPage(i)
                                 /\ FeedPage(i) <= FinalPage(reconcile.page_end)
                                 /\ i \notin reconcile.line_items_at_start
                                 /\ i \notin reconcile.line_items})

\* a run with --apply and a cap of 1 over two candidates: only the lower invoice
\* was re-synced, one scanned line item came back and one is still missing
C38_Witness ==
    /\ reconcile.pc = "returned"
    /\ reconcile.apply
    /\ reconcile.max_repair_invoices = 1
    /\ Cardinality(RepairCandidates) = 2
    /\ reconcile.repaired = <<1>>
    /\ reconcile.rows_upserted > 0
    /\ reconcile.remaining_missing = 1
    /\ reconcile.line_items # reconcile.line_items_at_start

\* a run without --apply that found missing line items and wrote nothing
C38_WitnessDryRun ==
    /\ reconcile.pc = "returned"
    /\ ~reconcile.apply
    /\ RepairCandidates # {}
    /\ reconcile.line_items = reconcile.line_items_at_start


-----------------------------------------------------------------------------
(* The final status of a cycle, checked under Spec *)

\* C39 as stated: whatever the message of an exception raised during a cycle
\* (the empty string included), the final persisted status of the cycle is failed
\* and never success; success is persisted only for a cycle in which no step
\* raised.
C39_EveryExceptionFails ==
    pc = "exited"
      => /\ raised_in # "none" => sync_status.status = "failed"
         /\ sync_status.status = "success" => raised_in = "none"


\* C40 as stated: in every state of the status row the orchestrator writes,
\* running implies cycle_finished_at and last_error are null, success implies
\* cycle_finished_at is set and last_error is null, failed implies
\* cycle_finished_at is set and last_error is non-empty; and within one cycle
\* cycle_id, mode and cycle_started_at are the same in every write while
\* last_heartbeat never decreases.
C40_StatusRowConsistent ==
    /\ [](/\ sync_status.status = "running"
             => /\ sync_status.cycle_finished_at = NoTime
                /\ sync_status.last_error = "None"
          /\ sync_status.status = "success"
             => /\ sync_status.cycle_finished_at # NoTime
                /\ sync_status.last_error = "None"
          /\ sync_status.status = "failed"
             => /\ sync_status.cycle_finished_at # NoTime
                /\ sync_status.last_error \notin {"None", ""})
    /\ [][(sync_status # NoRow /\ sync_status'.cycle_id = sync_status.cycle_id)
            => /\ sync_status'.mode = sync_status.mode
               /\ sync_status'.cycle_started_at = sync_status.cycle_started_at
               /\ sync_status'.last_heartbeat >= sync_status.last_heartbeat]_vars

=============================================================================
